---------------------------- MODULE Spec2Model ----------------------------
(***************************************************************************)
(* The relationship-to-diagram compilers of the repository:                *)
(* build_mermaid_from_structured and build_mermaid_without_subgraph        *)
(* (src/zikken_11month_v7.py), build_mermaid_from_csv                      *)
(* (src/model_comparison_test.py) and build_mermaid_from_structured of     *)
(* src/test_structured_output.py; and the callers generate_mermaid_file    *)
(* and openai_chat (src/zikken_11month_v7.py).                             *)
(*                                                                         *)
(* Strings are sequences of Unicode code points, so that trimming,         *)
(* slicing, substring tests and lexicographic order are computed as        *)
(* Python computes them.  A node id 'id_<n>' is the number n.  A line of   *)
(* the output is a record with one field per interpolated part of the      *)
(* f-string that produces it; the returned text is the sequence of its     *)
(* lines ('\n'.join).  hash() of a str is a function the interpreter      *)
(* process fixes when it starts; the model draws a few raw values for it,  *)
(* of either sign and beyond 10000, from which safe_id computes the id.    *)
(***************************************************************************)
EXTENDS Integers, Sequences, FiniteSets, TLC

VARIABLES
    graph,          \* the CharacterGraph handed to the compiler
    hashOf,         \* hash() of this interpreter process: str -> raw hash
    setOrder,       \* iteration order of a set of str in this process
    pc,             \* position in build_mermaid_from_structured
    i,              \* index of the next element of graph.relationships
    nodes,          \* nodes = set()
    edges,          \* edges = []
    groups,         \* groups = {}  (a dict: insertion-ordered)
    edge_map,       \* edge_map = {} (only its keys are used)
    filtered_count, \* filtered_count = {"invalid":..,"empty":..,"duplicate":..}
    node_ids,       \* node_ids = {name: safe_id(name) for name in nodes}
    lines,          \* lines = ["graph LR", ...]
    out,            \* the returned text, as its sequence of lines
    run,            \* number of the interpreter process (1, 2, ...)
    prev,           \* what the earlier calls on this graph returned, and where
    csv_text,       \* the text handed to build_mermaid_from_csv
    main_focus,     \* its main_focus: <<>> for None, else <<the str>>
    exc,            \* the exception the call raised, or "none"
    other,          \* the locals of a call running in another thread
    gen,            \* the locals of generate_mermaid_file
    chat            \* the locals of openai_chat

\* the process, the inputs of the call, what it raised and the other calls
procVars ==
    <<graph, hashOf, setOrder, run, prev, csv_text, main_focus, exc, other,
      gen, chat>>

\* the collections the loop over the relationships fills
collVars == <<nodes, edges, groups, edge_map, filtered_count>>

vars == <<graph, hashOf, setOrder, pc, i, nodes, edges, groups, edge_map,
          filtered_count, node_ids, lines, out, run, prev, csv_text,
          main_focus, exc, other, gen, chat>>

-----------------------------------------------------------------------------
(* Bounds of the model. *)

MaxRecs == 2

MaxFocus == 2

MaxCalls == 2

-----------------------------------------------------------------------------
(* Program constants. *)

LabelLimit == 5

HashMod == 10000

max_retries == 3

-----------------------------------------------------------------------------
(* Python str operations, on sequences of code points. *)

Min(a, b) == IF a <= b THEN a ELSE b

Abs(n) == IF n < 0 THEN -n ELSE n

\* str.isspace() of one character
IsSpace(c) ==
    c \in ({9, 10, 11, 12, 13, 28, 29, 30, 31, 32, 133, 160, 5760}
           \cup (8192..8202) \cup {8232, 8233, 8239, 8287, 12288})

RECURSIVE LStrip(_)
LStrip(s) ==
    IF s = <<>> THEN <<>>
    ELSE IF IsSpace(Head(s)) THEN LStrip(Tail(s)) ELSE s

RECURSIVE RStrip(_)
RStrip(s) ==
    IF s = <<>> THEN <<>>
    ELSE IF IsSpace(s[Len(s)]) THEN RStrip(SubSeq(s, 1, Len(s) - 1)) ELSE s

\* s.strip()
Strip(s) == RStrip(LStrip(s))

\* s[:n]
Slice(s, n) == SubSeq(s, 1, Min(n, Len(s)))

\* a in b, for str a and b
Contains(b, a) ==
    \E k \in 0..(Len(b) - Len(a)) : SubSeq(b, k + 1, k + Len(a)) = a

\* a < b, for str a and b (code point order)
LexLess(a, b) ==
    \E k \in 1..(Min(Len(a), Len(b)) + 1) :
        /\ \A j \in 1..(k - 1) : a[j] = b[j]
        /\ \/ k > Len(a) /\ k <= Len(b)
           \/ k <= Len(a) /\ k <= Len(b) /\ a[k] < b[k]

\* sorted(S), for a set S of str
RECURSIVE Sorted(_)
Sorted(S) ==
    IF S = {} THEN <<>>
    ELSE LET m == CHOOSE x \in S : \A y \in S \ {x} : LexLess(x, y)
         IN  <<m>> \o Sorted(S \ {m})

\* the elements of a sequence
Range(s) == {s[k] : k \in DOMAIN s}

\* all sequences over S of length at most n
SeqsUpTo(S, n) == UNION {[1..k -> S] : k \in 0..n}

-----------------------------------------------------------------------------
(* INVALID_NODES *)

INVALID_NODES ==
    { <<19981, 26126>>,                       \* '不明'
      <<20027, 20307>>,                       \* '主体'
      <<23458, 20307>>,                       \* '客体'
      <<12464, 12523, 12540, 12503>>,         \* 'グループ'
      <<38306, 20418, 12479, 12452, 12503>>,  \* '関係タイプ'
      <<38306, 20418, 35443, 32048>>,         \* '関係詳細'
      <<63>>,                                 \* '?'
      <<65311>>,                              \* '？'
      <<78, 111, 110, 101>>,                  \* 'None'
      <<110, 111, 110, 101>>,                 \* 'none'
      <<110, 117, 108, 108>>,                 \* 'null'
      <<78, 85, 76, 76>>,                     \* 'NULL'
      <<>> }                                  \* ''

-----------------------------------------------------------------------------
(* build_mermaid_from_structured: the loop over graph.relationships. *)

\* mutant: only the source is looked up
IsInvalid_SourceOnly(rel) == rel.source \in INVALID_NODES

\* rel.source in INVALID_NODES or rel.target in INVALID_NODES
IsInvalid(rel) ==
    rel.source \in INVALID_NODES \/ rel.target \in INVALID_NODES

\* not rel.source or not rel.target or not rel.source.strip()
\*     or not rel.target.strip()
IsEmpty(rel) ==
    \/ rel.source = <<>>
    \/ rel.target = <<>>
    \/ Strip(rel.source) = <<>>
    \/ Strip(rel.target) = <<>>

\* mutant: a record that passes the two tests is passed on with its names
\* trimmed
FilterRecord_Trimmed(rel) ==
    IF IsInvalid(rel) \/ IsEmpty(rel) THEN <<>>
    ELSE <<[rel EXCEPT !.source = Strip(@), !.target = Strip(@)]>>

\* what the two tests at the head of the loop body let through of a record:
\* nothing (continue), or the record as it is
FilterRecord(rel) ==
    IF IsInvalid(rel) \/ IsEmpty(rel) THEN <<>> ELSE <<rel>>

\* the records of a list that the two tests let through, in order
RECURSIVE Filter(_)
Filter(rels) ==
    IF rels = <<>> THEN <<>>
    ELSE FilterRecord(Head(rels)) \o Filter(Tail(rels))

\* edge_key = (rel.source, rel.target)
EdgeKey(rel) == <<rel.source, rel.target>>

\* mutant: the pair is looked up in either direction
IsDuplicate_Unordered(em, rel) ==
    EdgeKey(rel) \in em \/ <<rel.target, rel.source>> \in em

\* edge_key in edge_map
IsDuplicate(em, rel) == EdgeKey(rel) \in em

\* the arrow of a relation_type
EdgeSymbol(relation_type) ==
    IF relation_type = "bidirectional" THEN "<-->"
    ELSE IF relation_type = "dotted" THEN "-.->"
    ELSE "-->"

\* mutant: the label is stored whole
LimitLabel_Whole(label) == label

\* rel.label[:5]
LimitLabel(label) == Slice(label, LabelLimit)

\* the dict entry of group g, when it has one
GroupIndex(gs, g) == CHOOSE k \in DOMAIN gs : gs[k].name = g

\* mutant: the member set of the group is started anew by every record
GroupsAdd_Overwrite(gs, rel) ==
    IF rel.group = <<>> THEN gs
    ELSE IF \E k \in DOMAIN gs : gs[k].name = rel.group
         THEN [gs EXCEPT ![GroupIndex(gs, rel.group)].members =
                             {rel.source, rel.target}]
         ELSE Append(gs, [name |-> rel.group,
                          members |-> {rel.source, rel.target}])

\* if rel.group: groups.setdefault(rel.group, set()) gets source and target
GroupsAdd(gs, rel) ==
    IF rel.group = <<>> THEN gs
    ELSE IF \E k \in DOMAIN gs : gs[k].name = rel.group
         THEN [gs EXCEPT ![GroupIndex(gs, rel.group)].members =
                             @ \cup {rel.source, rel.target}]
         ELSE Append(gs, [name |-> rel.group,
                          members |-> {rel.source, rel.target}])

\* the entry appended to edges
EdgeOf(rel) ==
    [src |-> rel.source, dst |-> rel.target,
     symbol |-> EdgeSymbol(rel.relation_type),
     label |-> LimitLabel(rel.label)]

\* the collections before the first iteration
EmptyCollect ==
    [nodes |-> {}, edges |-> <<>>, groups |-> <<>>, edge_map |-> {},
     filtered_count |-> [invalid |-> 0, empty |-> 0, duplicate |-> 0]]

\* mutant: the usable name of a record with a placeholder becomes a node
Collect_KeepsUsableName(st, rel) ==
    IF IsInvalid(rel)
    THEN [st EXCEPT !.nodes = @ \cup ({rel.source, rel.target} \ INVALID_NODES),
                    !.filtered_count.invalid = @ + 1]
    ELSE IF IsEmpty(rel)
    THEN [st EXCEPT !.filtered_count.empty = @ + 1]
    ELSE IF IsDuplicate(st.edge_map, rel)
    THEN [st EXCEPT !.filtered_count.duplicate = @ + 1]
    ELSE [nodes |-> st.nodes \cup {rel.source, rel.target},
          edges |-> Append(st.edges, EdgeOf(rel)),
          groups |-> GroupsAdd(st.groups, rel),
          edge_map |-> st.edge_map \cup {EdgeKey(rel)},
          filtered_count |-> st.filtered_count]

\* one iteration of the loop, on record rel
Collect(st, rel) ==
    IF IsInvalid(rel)
    THEN [st EXCEPT !.filtered_count.invalid = @ + 1]
    ELSE IF IsEmpty(rel)
    THEN [st EXCEPT !.filtered_count.empty = @ + 1]
    ELSE IF IsDuplicate(st.edge_map, rel)
    THEN [st EXCEPT !.filtered_count.duplicate = @ + 1]
    ELSE [nodes |-> st.nodes \cup {rel.source, rel.target},
          edges |-> Append(st.edges, EdgeOf(rel)),
          groups |-> GroupsAdd(st.groups, rel),
          edge_map |-> st.edge_map \cup {EdgeKey(rel)},
          filtered_count |-> st.filtered_count]

\* the whole loop
RECURSIVE CollectAll(_, _)
CollectAll(st, rels) ==
    IF rels = <<>> THEN st ELSE CollectAll(Collect(st, Head(rels)), Tail(rels))

-----------------------------------------------------------------------------
(* Node ids and node declarations. *)

\* mutant: the hash is reduced without abs()
safe_id_NoAbs(h, name) == h[name] % HashMod

\* safe_id(name): 'id_' + str(abs(hash(name)) % 10000), as the number
safe_id(h, name) == Abs(h[name]) % HashMod

\* node_ids = {name: safe_id(name) for name in nodes}
NodeIds(h, ns) == [name \in ns |-> safe_id(h, name)]

\* the keys of node_ids in the dict's order, which is the set's order
KeyOrder(ord, ids) == SelectSeq(ord, LAMBDA n : n \in DOMAIN ids)

\* mutant: the declarations are sorted by id, not by name
NodeLines_SortedById(ns, ids) ==
    LET s == CHOOSE q \in [1..Cardinality(ns) -> ns] :
                 \A a, b \in DOMAIN q :
                     a < b => \/ ids[q[a]] < ids[q[b]]
                              \/ ids[q[a]] = ids[q[b]] /\ LexLess(q[a], q[b])
    IN  [k \in 1..Len(s) |-> [t |-> "node", id |-> ids[s[k]], name |-> s[k]]]

\* mutant: the declarations are numbered by their position
NodeLines_ByPosition(ns, ids) ==
    LET s == Sorted(ns)
    IN  [k \in 1..Len(s) |-> [t |-> "node", id |-> k, name |-> s[k]]]

\* mutant: an id is declared once, with the last of its names
NodeLines_OnePerId(ns, ids) ==
    LET s == SelectSeq(Sorted(ns),
                       LAMBDA n : \A m \in ns :
                                      (m # n /\ ids[m] = ids[n]) => LexLess(m, n))
    IN  [k \in 1..Len(s) |-> [t |-> "node", id |-> ids[s[k]], name |-> s[k]]]

\* for name in sorted(nodes): lines.append(f'    {node_id}["{name}"]')
NodeLines(ns, ids) ==
    LET s == Sorted(ns)
    IN  [k \in 1..Len(s) |-> [t |-> "node", id |-> ids[s[k]], name |-> s[k]]]

-----------------------------------------------------------------------------
(* Subgraph blocks. *)

\* a character the re.sub of the group name keeps:
\* [0-9A-Za-z_\u3040-\u309F\u30A0-\u30FE\u4E00-\u9FFF\s]
GroupCharKept(c) ==
    \/ c \in 48..57
    \/ c \in 65..90
    \/ c \in 97..122
    \/ c = 95
    \/ c \in 12352..12447
    \/ c \in 12448..12542
    \/ c \in 19968..40959
    \/ IsSpace(c)

\* 'group'
DefaultGroupName == <<103, 114, 111, 117, 112>>

\* mutant: the middle dot is kept and there is no default name
SafeGroupName_NoFallback(group_name) ==
    SelectSeq(group_name, LAMBDA c : GroupCharKept(c) \/ c = 12539)

\* safe_group_name of group_name
SafeGroupName(group_name) ==
    LET noDot == SelectSeq(group_name, LAMBDA c : c # 12539)
        kept  == SelectSeq(noDot, GroupCharKept)
    IN  IF Strip(kept) = <<>> THEN DefaultGroupName ELSE kept

\* the lines of one group: subgraph, its members that are in node_ids, end
GroupBlock(g, ids) ==
    LET s == SelectSeq(Sorted(g.members), LAMBDA n : n \in DOMAIN ids)
    IN  <<[t |-> "subgraph", name |-> SafeGroupName(g.name)]>>
        \o [k \in 1..Len(s) |-> [t |-> "member", id |-> ids[s[k]]]]
        \o <<[t |-> "end"]>>

RECURSIVE GroupBlocks(_, _)
GroupBlocks(gs, ids) ==
    IF gs = <<>> THEN <<>>
    ELSE GroupBlock(Head(gs), ids) \o GroupBlocks(Tail(gs), ids)

\* if groups: lines.append('') and the block of every group
GroupLines(gs, ids) ==
    IF gs = <<>> THEN <<>> ELSE <<[t |-> "blank"]>> \o GroupBlocks(gs, ids)

-----------------------------------------------------------------------------
(* Edge lines. *)

\* mutant: a labelled dotted edge falls through to the default arrow
LabelledArrow_NoDotted(symbol) ==
    IF symbol = "<-->" THEN "<-->" ELSE "-->"

\* the arrow written before |label| for an edge of this symbol
LabelledArrow(symbol) ==
    IF symbol = "<-->" THEN "<-->"
    ELSE IF symbol = "-.->" THEN "-.->"
    ELSE "-->"

\* the line of one edge, or no line when the edge is skipped
EdgeLine(e, ids) ==
    IF e.src = <<>> \/ e.dst = <<>> THEN <<>>
    ELSE IF e.src \notin DOMAIN ids \/ e.dst \notin DOMAIN ids THEN <<>>
    ELSE IF e.label # <<>>
    THEN <<[t |-> "edge", src |-> ids[e.src], arrow |-> LabelledArrow(e.symbol),
            label |-> e.label, dst |-> ids[e.dst]]>>
    ELSE <<[t |-> "edge", src |-> ids[e.src], arrow |-> e.symbol,
            label |-> <<>>, dst |-> ids[e.dst]]>>

\* mutant: the edges are written newest first
RECURSIVE EdgeBlock_NewestFirst(_, _)
EdgeBlock_NewestFirst(es, ids) ==
    IF es = <<>> THEN <<>>
    ELSE EdgeBlock_NewestFirst(Tail(es), ids) \o EdgeLine(Head(es), ids)

\* for edge in edges: the line of the edge, in the order of the list
RECURSIVE EdgeBlock(_, _)
EdgeBlock(es, ids) ==
    IF es = <<>> THEN <<>>
    ELSE EdgeLine(Head(es), ids) \o EdgeBlock(Tail(es), ids)

\* lines.append('') and the line of every edge
EdgeLines(es, ids) == <<[t |-> "blank"]>> \o EdgeBlock(es, ids)

-----------------------------------------------------------------------------
(* Highlighting of the center persons. *)

\* mutant: every node name matches
FuzzyMatch_Always(center_person, node_name) == TRUE

\* center_person in node_name or node_name in center_person
FuzzyMatch(center_person, node_name) ==
    Contains(node_name, center_person) \/ Contains(center_person, node_name)

\* mutant: the exact name has no precedence over the substring search
Resolve_FuzzyOnly(center_person, ids, ord) ==
    LET keys == KeyOrder(ord, ids)
        hits == {k \in DOMAIN keys : FuzzyMatch(center_person, keys[k])}
    IN  IF hits = {} THEN {}
        ELSE {keys[CHOOSE k \in hits : \A j \in hits : k <= j]}

\* the node a center person selects, as a set of at most one name
Resolve(center_person, ids, ord) ==
    IF center_person \in DOMAIN ids THEN {center_person}
    ELSE LET keys == KeyOrder(ord, ids)
             hits == {k \in DOMAIN keys : FuzzyMatch(center_person, keys[k])}
         IN  IF hits = {} THEN {}
             ELSE {keys[CHOOSE k \in hits : \A j \in hits : k <= j]}

\* mutant: highlighted_nodes is not consulted
RECURSIVE Highlight_NoDedup(_, _, _, _)
Highlight_NoDedup(acc, cps, ids, ord) ==
    IF cps = <<>> THEN acc
    ELSE LET hit == Resolve(Head(cps), ids, ord)
             nxt == IF hit = {} THEN acc
                    ELSE [lines |-> Append(acc.lines,
                                      [t |-> "style",
                                       id |-> ids[CHOOSE n \in hit : TRUE]]),
                          highlighted_nodes |-> acc.highlighted_nodes]
         IN  Highlight_NoDedup(nxt, Tail(cps), ids, ord)

\* the loop over graph.center_persons; acc = [lines, highlighted_nodes]
RECURSIVE Highlight(_, _, _, _)
Highlight(acc, cps, ids, ord) ==
    IF cps = <<>> THEN acc
    ELSE LET hit == Resolve(Head(cps), ids, ord)
             new == {ids[n] : n \in hit} \ acc.highlighted_nodes
             nxt == IF new = {} THEN acc
                    ELSE [lines |-> Append(acc.lines,
                                      [t |-> "style",
                                       id |-> CHOOSE x \in new : TRUE]),
                          highlighted_nodes |-> acc.highlighted_nodes \cup new]
         IN  Highlight(nxt, Tail(cps), ids, ord)

\* if graph.center_persons: lines.append('') and the style lines
StyleLines(cps, ids, ord) ==
    IF cps = <<>> THEN <<>>
    ELSE <<[t |-> "blank"]>>
         \o Highlight([lines |-> <<>>, highlighted_nodes |-> {}],
                      cps, ids, ord).lines

-----------------------------------------------------------------------------
(* The returned text. *)

\* mutant: one empty line is popped, not all of them
PopBlank_Once(ls) ==
    IF ls # <<>> /\ ls[Len(ls)] = [t |-> "blank"]
    THEN SubSeq(ls, 1, Len(ls) - 1)
    ELSE ls

\* while filtered_lines and filtered_lines[-1] == '': filtered_lines.pop()
RECURSIVE PopBlank(_)
PopBlank(ls) ==
    IF ls # <<>> /\ ls[Len(ls)] = [t |-> "blank"]
    THEN PopBlank(SubSeq(ls, 1, Len(ls) - 1))
    ELSE ls

\* the lines before any is appended: ["graph LR"]
Header == <<[t |-> "header"]>>

\* build_mermaid_from_structured(g) in a process with hash h and set order ord
Compile(g, h, ord) ==
    LET st  == CollectAll(EmptyCollect, g.relationships)
        ids == NodeIds(h, st.nodes)
    IN  PopBlank(Header
                 \o NodeLines(st.nodes, ids)
                 \o GroupLines(st.groups, ids)
                 \o EdgeLines(st.edges, ids)
                 \o StyleLines(g.center_persons, ids, ord))

-----------------------------------------------------------------------------
(* The inputs the model draws. *)

\* a Relationship
Rel(s, d, ty, l, g) ==
    [source |-> s, target |-> d, relation_type |-> ty, label |-> l, group |-> g]

\* the Relationships over the given names, types, labels and group names
Rels(Srcs, Dsts, Types, Labels, Groups) ==
    {Rel(s, d, ty, l, g) : s \in Srcs, d \in Dsts, ty \in Types,
                           l \in Labels, g \in Groups}

\* the CharacterGraphs of at most MaxRecs relationships and MaxFocus center
\* persons
Graphs(RelU, FocusU) ==
    [relationships : SeqsUpTo(RelU, MaxRecs),
     center_persons : SeqsUpTo(FocusU, MaxFocus)]

\* the orders in which a process may iterate over a set with elements in S
Orders(S) ==
    {o \in [1..Cardinality(S) -> S] : \A n \in S : \E k \in DOMAIN o : o[k] = n}

\* the interpreter processes over the names S whose str hashes are in H
Processes(S, H) == [hash : [S -> H], order : Orders(S)]

\* the values of relation_type: the three of the schema and one outside it
RelationTypes == {"directed", "bidirectional", "dotted", "related"}

StrA == <<65>>

StrB == <<66>>

StrC == <<67>>

StrEmpty == <<>>

\* 'G'
StrG == <<71>>

\* ' '
StrBlank == <<32>>

\* ' A'
StrPaddedA == <<32, 65>>

\* '不明'
StrUnknown == <<19981, 26126>>

\* ' 不明 '
StrPaddedUnknown == <<32, 19981, 26126, 32>>

\* 'none'
StrNone == <<110, 111, 110, 101>>

\* 'Source'
StrSource == <<83, 111, 117, 114, 99, 101>>

\* 'directed'
StrDirected == <<100, 105, 114, 101, 99, 116, 101, 100>>

\* '双方向'
StrSouhoukou == <<21452, 26041, 21521>>

\* 'AB'
StrAB == <<65, 66>>

\* 'ABC'
StrABC == <<65, 66, 67>>

\* 'X'
StrX == <<88>>

\* the middle dot three times
StrDots == <<12539, 12539, 12539>>

\* 'G', middle dot, 'H'
StrGDotH == <<71, 12539, 72>>

\* a Hiragana, a Katakana and a CJK character, then '_1-!'
StrMixed == <<12354, 12450, 23478, 95, 49, 45, 33>>

\* 'abc'
StrAbc == <<97, 98, 99>>

\* 'abcde'
StrAbcde == <<97, 98, 99, 100, 101>>

\* 'friend'
StrFriend == <<102, 114, 105, 101, 110, 100>>

-----------------------------------------------------------------------------
(* The state machine of one call of build_mermaid_from_structured. *)

\* the locals at the start of a call
Entry ==
    /\ pc = "collect"
    /\ exc = "none"
    /\ i = 1
    /\ nodes = {}
    /\ edges = <<>>
    /\ groups = <<>>
    /\ edge_map = {}
    /\ filtered_count = [invalid |-> 0, empty |-> 0, duplicate |-> 0]
    /\ node_ids = <<>>
    /\ lines = Header
    /\ out = <<>>

\* no call is running in another thread, or of generate_mermaid_file, or
\* of openai_chat
NoFrame == [pc |-> "none"]

\* a call on a graph of GraphU in a process of ProcU
InitOn(GraphU, ProcU) ==
    /\ graph \in GraphU
    /\ other = NoFrame
    /\ gen = NoFrame
    /\ chat = NoFrame
    /\ \E p \in ProcU : hashOf = p.hash /\ setOrder = p.order
    /\ run = 1
    /\ prev = <<>>
    /\ csv_text = <<>>
    /\ main_focus = <<>>
    /\ Entry

\* one iteration of "for rel in graph.relationships"
StepRecord ==
    /\ pc = "collect"
    /\ i <= Len(graph.relationships)
    /\ LET st == Collect([nodes |-> nodes, edges |-> edges, groups |-> groups,
                          edge_map |-> edge_map,
                          filtered_count |-> filtered_count],
                         graph.relationships[i])
       IN  /\ nodes' = st.nodes
           /\ edges' = st.edges
           /\ groups' = st.groups
           /\ edge_map' = st.edge_map
           /\ filtered_count' = st.filtered_count
    /\ i' = i + 1
    /\ UNCHANGED <<procVars, pc, node_ids, lines, out>>

\* node_ids and the node declarations
AssignIds ==
    /\ pc = "collect"
    /\ i > Len(graph.relationships)
    /\ node_ids' = NodeIds(hashOf, nodes)
    /\ lines' = lines \o NodeLines(nodes, node_ids')
    /\ pc' = "groups"
    /\ UNCHANGED <<procVars, collVars, i, out>>

\* the subgraph blocks
EmitGroups ==
    /\ pc = "groups"
    /\ lines' = lines \o GroupLines(groups, node_ids)
    /\ pc' = "edges"
    /\ UNCHANGED <<procVars, collVars, i, node_ids, out>>

\* the edge lines
EmitEdges ==
    /\ pc = "edges"
    /\ lines' = lines \o EdgeLines(edges, node_ids)
    /\ pc' = "style"
    /\ UNCHANGED <<procVars, collVars, i, node_ids, out>>

\* the style lines
EmitStyles ==
    /\ pc = "style"
    /\ lines' = lines \o StyleLines(graph.center_persons, node_ids, setOrder)
    /\ pc' = "return"
    /\ UNCHANGED <<procVars, collVars, i, node_ids, out>>

\* return '\n'.join(filtered_lines)
Return ==
    /\ pc = "return"
    /\ out' = PopBlank(lines)
    /\ pc' = "done"
    /\ UNCHANGED <<procVars, collVars, i, node_ids, lines>>

Next ==
    \/ StepRecord
    \/ AssignIds
    \/ EmitGroups
    \/ EmitEdges
    \/ EmitStyles
    \/ Return

\* two names, every relation type, no label or one of 6 characters
CoreRels ==
    Rels({StrA, StrB}, {StrA, StrB}, RelationTypes,
         {StrEmpty, StrFriend}, {StrEmpty})

CoreProcs ==
    { [hash |-> (StrA :> 7 @@ StrB :> -8), order |-> <<StrA, StrB>>],
      [hash |-> (StrA :> 40123 @@ StrB :> 7), order |-> <<StrB, StrA>>] }

Init == InitOn(Graphs(CoreRels, {}), CoreProcs)

Spec == Init /\ [][Next]_vars

-----------------------------------------------------------------------------
(* What the claims speak of. *)

\* the call has returned
Done == pc = "done"

\* the edge lines of a text, in order
EdgeLinesOf(ls) == SelectSeq(ls, LAMBDA l : l.t = "edge")

\* the node declarations of a text, in order
NodeLinesOf(ls) == SelectSeq(ls, LAMBDA l : l.t = "node")

\* record k of the input passes the two name checks of the loop
Kept(k) ==
    /\ ~IsInvalid(graph.relationships[k])
    /\ ~IsEmpty(graph.relationships[k])

\* record k is kept and no kept record before it has its ordered pair
FirstOfPair(k) ==
    /\ Kept(k)
    /\ \A j \in 1..(k - 1) :
           Kept(j) => EdgeKey(graph.relationships[j]) # EdgeKey(graph.relationships[k])

\* the positions of the returned edge lines that run from name s to name d
LinesOfPair(s, d) ==
    IF s \in DOMAIN node_ids /\ d \in DOMAIN node_ids
    THEN {n \in DOMAIN EdgeLinesOf(out) :
              /\ EdgeLinesOf(out)[n].src = node_ids[s]
              /\ EdgeLinesOf(out)[n].dst = node_ids[d]}
    ELSE {}

\* the returned edge line of record k (one of them, should there be several)
LineOf(k) ==
    EdgeLinesOf(out)[CHOOSE n \in LinesOfPair(graph.relationships[k].source,
                                              graph.relationships[k].target) : TRUE]

\* the graph holding record k alone
Alone(k) ==
    [relationships |-> <<graph.relationships[k]>>, center_persons |-> <<>>]

\* the names the input mentions
InputNames ==
    {graph.relationships[k].source : k \in DOMAIN graph.relationships}
    \cup {graph.relationships[k].target : k \in DOMAIN graph.relationships}

\* node ids tell the names of the input apart
IdsInjective ==
    \A a, b \in InputNames : a # b => safe_id(hashOf, a) # safe_id(hashOf, b)

-----------------------------------------------------------------------------
\* C1: at most one edge per ordered (source name, target name) pair: a pair
\* no kept record names has no edge line, and a pair some kept record names
\* has exactly one, which is the line its first record yields when compiled
\* alone (its own kind and label: later records of the pair are neither
\* merged nor written over it); A->B and B->A each have their own line.
\* Checked where ids tell names apart, so that a line identifies its pair.
C1_FirstRecordWins ==
    (Done /\ IdsInjective) =>
        \A s \in InputNames, d \in InputNames :
            LET ks == {k \in DOMAIN graph.relationships :
                           Kept(k) /\ EdgeKey(graph.relationships[k]) = <<s, d>>}
                first == CHOOSE k \in ks : \A j \in ks : k <= j
            IN  IF ks = {} THEN LinesOfPair(s, d) = {}
                ELSE /\ Cardinality(LinesOfPair(s, d)) = 1
                     /\ <<LineOf(first)>> =
                            EdgeLinesOf(Compile(Alone(first), hashOf, setOrder))

\* two records of one ordered pair that differ in kind and label, one line
C1_Witness ==
    /\ Done
    /\ IdsInjective
    /\ Len(graph.relationships) = 2
    /\ EdgeKey(graph.relationships[1]) = EdgeKey(graph.relationships[2])
    /\ graph.relationships[1].relation_type # graph.relationships[2].relation_type
    /\ graph.relationships[1].label # graph.relationships[2].label
    /\ Len(EdgeLinesOf(out)) = 1

-----------------------------------------------------------------------------
\* the records that are the first of their ordered pair, in input order
Survivors ==
    SelectSeq([k \in DOMAIN graph.relationships |-> k], FirstOfPair)

\* C22: the edge lines of the returned text are the lines of the records
\* that survive the name checks and are the first of their ordered pair, one
\* line each, in the order of these records in the input.
C22_EdgesInInputOrder ==
    Done =>
        /\ Len(EdgeLinesOf(out)) = Len(Survivors)
        /\ \A n \in DOMAIN Survivors :
               <<EdgeLinesOf(out)[n]>> =
                   EdgeLinesOf(Compile(Alone(Survivors[n]), hashOf, setOrder))

\* two surviving records whose lines differ
C22_Witness ==
    /\ Done
    /\ Survivors = <<1, 2>>
    /\ Len(EdgeLinesOf(out)) = 2
    /\ EdgeLinesOf(out)[1] # EdgeLinesOf(out)[2]
    /\ graph.relationships[1].source # graph.relationships[2].source

-----------------------------------------------------------------------------
\* C10: the kind of a record decides the arrow of its edge line, whether the
\* label is empty or not: directed '-->', bidirectional '<-->', dotted
\* '-.->', any other value '-->'.
ArrowOfKind(relation_type) ==
    CASE relation_type = "directed" -> "-->"
      [] relation_type = "bidirectional" -> "<-->"
      [] relation_type = "dotted" -> "-.->"
      [] OTHER -> "-->"

C10_KindDecidesArrow ==
    (Done /\ IdsInjective) =>
        \A k \in DOMAIN graph.relationships :
            FirstOfPair(k) =>
                /\ LinesOfPair(graph.relationships[k].source,
                               graph.relationships[k].target) # {}
                /\ LineOf(k).arrow = ArrowOfKind(graph.relationships[k].relation_type)

\* a dotted record with a label and a record of an unknown kind without one
C10_Witness ==
    /\ Done
    /\ IdsInjective
    /\ \E k, j \in DOMAIN graph.relationships :
           /\ FirstOfPair(k)
           /\ graph.relationships[k].relation_type = "dotted"
           /\ graph.relationships[k].label # <<>>
           /\ LineOf(k).arrow = "-.->"
           /\ LineOf(k).label # <<>>
           /\ FirstOfPair(j)
           /\ graph.relationships[j].relation_type = "related"
           /\ LineOf(j).arrow = "-->"
           /\ LineOf(j).label = <<>>

-----------------------------------------------------------------------------
\* labels of 0, 3, 5 and 6 characters
LabelRels ==
    Rels({StrA, StrB}, {StrA, StrB}, {"directed", "dotted"},
         {StrEmpty, StrAbc, StrAbcde, StrFriend}, {StrEmpty})

InitLabel == InitOn(Graphs(LabelRels, {}), CoreProcs)

SpecLabel == InitLabel /\ [][Next]_vars

\* C6: the label of every emitted edge is the first 5 characters of the
\* label of its record: at most 5 characters long, and the record's label
\* unchanged when that has 5 characters or fewer.
C6_LabelFirstFive ==
    (Done /\ IdsInjective) =>
        \A k \in DOMAIN graph.relationships :
            FirstOfPair(k) =>
                /\ LinesOfPair(graph.relationships[k].source,
                               graph.relationships[k].target) # {}
                /\ Len(LineOf(k).label) <= 5
                /\ LineOf(k).label =
                       IF Len(graph.relationships[k].label) <= 5
                       THEN graph.relationships[k].label
                       ELSE SubSeq(graph.relationships[k].label, 1, 5)

\* a label of 6 characters is emitted as its first 5
C6_Witness ==
    /\ Done
    /\ IdsInjective
    /\ \E k \in DOMAIN graph.relationships :
           /\ FirstOfPair(k)
           /\ Len(graph.relationships[k].label) = 6
           /\ LineOf(k).label = SubSeq(graph.relationships[k].label, 1, 5)

-----------------------------------------------------------------------------
\* names that are placeholders, blank, or a name or placeholder with blanks
\* around it, beside plain names; with and without a group
FilterRels ==
    Rels({StrA, StrUnknown, StrPaddedUnknown, StrBlank, StrPaddedA},
         {StrB, StrEmpty, StrNone}, {"directed"}, {StrAbc}, {StrEmpty, StrG})

FilterProcs ==
    { [hash |-> (StrA :> 7 @@ StrB :> -8 @@ StrUnknown :> 9 @@ StrNone :> 10
                 @@ StrPaddedUnknown :> -10011 @@ StrBlank :> 12
                 @@ StrPaddedA :> 20013 @@ StrEmpty :> 0),
       order |-> <<StrA, StrB, StrUnknown, StrNone, StrPaddedUnknown, StrBlank,
                   StrPaddedA, StrEmpty>>] }

InitFilter == InitOn(Graphs(FilterRels, {}), FilterProcs)

SpecFilter == InitFilter /\ [][Next]_vars

\* the names with a node declaration in the returned text
DeclaredNames == {NodeLinesOf(out)[n].name : n \in DOMAIN NodeLinesOf(out)}

\* the ids the returned text uses on edge lines and as subgraph members
UsedIds ==
    {out[n].src : n \in {m \in DOMAIN out : out[m].t = "edge"}}
    \cup {out[n].dst : n \in {m \in DOMAIN out : out[m].t = "edge"}}
    \cup {out[n].id : n \in {m \in DOMAIN out : out[m].t = "member"}}

\* neither name of record k is a member of INVALID_NODES or blank
NamesUsable(k) ==
    /\ graph.relationships[k].source \notin INVALID_NODES
    /\ graph.relationships[k].target \notin INVALID_NODES
    /\ \E c \in Range(graph.relationships[k].source) : ~IsSpace(c)
    /\ \E c \in Range(graph.relationships[k].target) : ~IsSpace(c)

\* C2: a record whose source or target is a member of INVALID_NODES is
\* dropped whole: the declared nodes are the names of the other records
\* (the non-blank ones), so no member is declared, and no edge line or
\* subgraph member carries the id of a member.
C2_InvalidNamesDropped ==
    Done =>
        /\ DeclaredNames \cap INVALID_NODES = {}
        /\ DeclaredNames =
               UNION {{graph.relationships[k].source, graph.relationships[k].target} :
                          k \in {j \in DOMAIN graph.relationships : NamesUsable(j)}}
        /\ IdsInjective =>
               UsedIds \cap {safe_id(hashOf, n) : n \in INVALID_NODES \cap InputNames} = {}

\* a record from a placeholder to B and one from A to a placeholder are
\* dropped, B and A with them
C2_Witness ==
    /\ Done
    /\ IdsInjective
    /\ Len(graph.relationships) = 2
    /\ graph.relationships[1].source \in INVALID_NODES
    /\ graph.relationships[1].target = StrB
    /\ graph.relationships[2].target \in INVALID_NODES
    /\ graph.relationships[2].source = StrA
    /\ DeclaredNames = {}

\* C3: names are trimmed before they are tested: no declared name is a
\* placeholder with blanks around it, or has blanks around it at all, and
\* names that differ only in the blanks around them are one node.
C3_TrimmedBeforeTest ==
    Done =>
        /\ \A n \in DeclaredNames : Strip(n) \notin INVALID_NODES
        /\ \A n, m \in DeclaredNames : Strip(n) = Strip(m) => n = m

-----------------------------------------------------------------------------
\* three names whose raw hashes may be told apart, or agree in absolute
\* value, or agree modulo HashMod; with and without a group; A may be a
\* center person
IdRels == Rels({StrA, StrC}, {StrA, StrB}, {"directed"}, {StrEmpty}, {StrEmpty, StrG})

IdHashes == [{StrA, StrB, StrC} -> {7, -7, 10007, 8}]

IdProcs == {[hash |-> h, order |-> <<StrA, StrB, StrC>>] : h \in IdHashes}

InitIds == InitOn(Graphs(IdRels, {StrA}), IdProcs)

SpecIds == InitIds /\ [][Next]_vars

\* the ids with a node declaration in the returned text
DeclaredIds == {NodeLinesOf(out)[n].id : n \in DOMAIN NodeLinesOf(out)}

\* C5: every id on an edge line and every id listed in a subgraph block is
\* the id of a node declaration of the same text.
C5_ReferentialIntegrity == Done => UsedIds \subseteq DeclaredIds

\* a text with edge lines and subgraph members, two names sharing an id
C5_Witness ==
    /\ Done
    /\ ~IdsInjective
    /\ \E n \in DOMAIN out : out[n].t = "edge"
    /\ \E n \in DOMAIN out : out[n].t = "member"
    /\ UsedIds # {}

\* C7: no two edge lines of the returned text have the same ordered
\* (source id, target id).
C7_NoTwoEdgesSameIds ==
    Done =>
        \A a, b \in DOMAIN EdgeLinesOf(out) :
            a # b => <<EdgeLinesOf(out)[a].src, EdgeLinesOf(out)[a].dst>>
                     # <<EdgeLinesOf(out)[b].src, EdgeLinesOf(out)[b].dst>>

\* the names of the records that pass the two name checks
KeptNames ==
    {graph.relationships[k].source : k \in {j \in DOMAIN graph.relationships : Kept(j)}}
    \cup {graph.relationships[k].target : k \in {j \in DOMAIN graph.relationships : Kept(j)}}

\* the positions of the node declarations of id x in the returned text
DeclarationsOf(x) ==
    {n \in DOMAIN NodeLinesOf(out) : NodeLinesOf(out)[n].id = x}

\* C23 as stated: the call raises nothing and every declared id has exactly
\* one node declaration, also when two names share the id.
C23_OneDeclarationPerId ==
    Done =>
        /\ exc = "none"
        /\ \A x \in DeclaredIds : Cardinality(DeclarationsOf(x)) = 1

\* C23, amended: the call raises nothing and every kept name has its own
\* node declaration, so that an id shared by several names is declared once
\* for each of them, in the sorted order of the names; the last declaration
\* of an id carries the name that sorts last among the names of that id.
C23_OneDeclarationPerName ==
    Done =>
        /\ exc = "none"
        /\ DeclaredIds = {safe_id(hashOf, n) : n \in KeptNames}
        /\ \A x \in DeclaredIds :
               LET names == {n \in KeptNames : safe_id(hashOf, n) = x}
                   last  == CHOOSE n \in DeclarationsOf(x) :
                                \A m \in DeclarationsOf(x) : m <= n
               IN  /\ Cardinality(DeclarationsOf(x)) = Cardinality(names)
                   /\ {NodeLinesOf(out)[n].name : n \in DeclarationsOf(x)} = names
                   /\ \A a, b \in DeclarationsOf(x) :
                          a < b => LexLess(NodeLinesOf(out)[a].name,
                                           NodeLinesOf(out)[b].name)
                   /\ \A m \in names \ {NodeLinesOf(out)[last].name} :
                          LexLess(m, NodeLinesOf(out)[last].name)

\* two names share an id and the text declares the id twice, once per name
C23_Witness ==
    /\ Done
    /\ exc = "none"
    /\ \E x \in DeclaredIds :
           /\ Cardinality(DeclarationsOf(x)) = 2
           /\ Cardinality({NodeLinesOf(out)[n].name : n \in DeclarationsOf(x)}) = 2
    /\ Len(EdgeLinesOf(out)) = 2

\* the graph with its records in the order p, a permutation of the positions
Permuted(p) ==
    [relationships |-> [k \in DOMAIN p |-> graph.relationships[p[k]]],
     center_persons |-> graph.center_persons]

\* C9: within one call the id of a name is abs(hash(name)) % 10000 wherever
\* the name occurs: on its declaration, as the source or the target of each
\* edge, as a subgraph member and on a style line; and the declarations (the
\* id of every name) are the same for every order of the input records.
C9_IdFromNameOnly ==
    Done =>
        /\ \A n \in DOMAIN NodeLinesOf(out) :
               NodeLinesOf(out)[n].id =
                   (IF hashOf[NodeLinesOf(out)[n].name] < 0
                    THEN -hashOf[NodeLinesOf(out)[n].name]
                    ELSE hashOf[NodeLinesOf(out)[n].name]) % 10000
        /\ Len(EdgeLinesOf(out)) = Len(edges)
        /\ \A n \in DOMAIN edges :
               \E s, d \in DOMAIN NodeLinesOf(out) :
                   /\ NodeLinesOf(out)[s].name = edges[n].src
                   /\ NodeLinesOf(out)[d].name = edges[n].dst
                   /\ EdgeLinesOf(out)[n].src = NodeLinesOf(out)[s].id
                   /\ EdgeLinesOf(out)[n].dst = NodeLinesOf(out)[d].id
        /\ \A n \in DOMAIN out :
               out[n].t \in {"member", "style"} => out[n].id \in DeclaredIds
        /\ \A n \in DOMAIN out :
               (out[n].t = "style" /\ graph.center_persons[1] \in DeclaredNames) =>
                   \E s \in DOMAIN NodeLinesOf(out) :
                       /\ NodeLinesOf(out)[s].name = graph.center_persons[1]
                       /\ NodeLinesOf(out)[s].id = out[n].id
        /\ \A p \in Orders(DOMAIN graph.relationships) :
               NodeLinesOf(Compile(Permuted(p), hashOf, setOrder)) = NodeLinesOf(out)

\* A is the target of one record and the source of another, is grouped and
\* highlighted; its raw hash is negative
C9_Witness ==
    /\ Done
    /\ Len(graph.relationships) = 2
    /\ graph.relationships[1].source = StrC
    /\ graph.relationships[1].target = StrA
    /\ graph.relationships[2].source = StrA
    /\ graph.relationships[2].target = StrB
    /\ graph.relationships[2].group = StrG
    /\ graph.center_persons = <<StrA>>
    /\ hashOf[StrA] < 0
    /\ Len(EdgeLinesOf(out)) = 2
    /\ \E n \in DOMAIN out : out[n].t = "style"

-----------------------------------------------------------------------------
\* the nodes 'AB', 'B' and 'C'; center persons that name a node, are part of
\* the name of a node, hold the names of several nodes, or match none
FocusRels ==
    Rels({StrAB, StrB}, {StrAB, StrC}, {"directed"}, {StrEmpty}, {StrEmpty})

FocusNames == {StrA, StrAB, StrB, StrABC, StrX}

\* two orders of the node map; ids that tell the names apart, or not
FocusProcs ==
    { [hash |-> h, order |-> o] :
          h \in { (StrAB :> 7 @@ StrB :> -8 @@ StrC :> 10009),
                  (StrAB :> 7 @@ StrB :> -7 @@ StrC :> 9) },
          o \in { <<StrAB, StrB, StrC>>, <<StrC, StrB, StrAB>> } }

InitFocus == InitOn(Graphs(FocusRels, FocusNames), FocusProcs)

SpecFocus == InitFocus /\ [][Next]_vars

\* the ids of the style lines of the returned text, in order
StyleIds ==
    LET s == SelectSeq(out, LAMBDA l : l.t = "style")
    IN  [k \in DOMAIN s |-> s[k].id]

\* the id on the declaration line of name n
DeclaredId(n) ==
    NodeLinesOf(out)[CHOOSE k \in DOMAIN NodeLinesOf(out) :
                         NodeLinesOf(out)[k].name = n].id

\* the place of name n in the iteration order of the node map
PlaceOf(n) == CHOOSE k \in DOMAIN setOrder : setOrder[k] = n

\* the name of node n contains the focus name f, or is contained in it
FocusHit(f, n) ==
    \/ \E k \in 0..(Len(n) - Len(f)) : SubSeq(n, k + 1, k + Len(f)) = f
    \/ \E k \in 0..(Len(f) - Len(n)) : SubSeq(f, k + 1, k + Len(n)) = n

\* the nodes focus name f is to select: the node of that name, else the
\* first node of the map that it hits
FocusTarget(f) ==
    IF f \in DeclaredNames THEN {f}
    ELSE {n \in DeclaredNames :
              /\ FocusHit(f, n)
              /\ \A m \in DeclaredNames : FocusHit(f, m) => PlaceOf(n) <= PlaceOf(m)}

\* the ids of the nodes the focus names select, one after the other
RECURSIVE TargetIds(_)
TargetIds(fs) ==
    IF fs = <<>> THEN <<>>
    ELSE (IF FocusTarget(Head(fs)) = {} THEN <<>>
          ELSE <<DeclaredId(CHOOSE n \in FocusTarget(Head(fs)) : TRUE)>>)
         \o TargetIds(Tail(fs))

\* a sequence without the later occurrences of its elements
RECURSIVE FirstOccurrences(_)
FirstOccurrences(s) ==
    IF s = <<>> THEN <<>>
    ELSE LET init == FirstOccurrences(SubSeq(s, 1, Len(s) - 1))
         IN  IF s[Len(s)] \in Range(init) THEN init
             ELSE Append(init, s[Len(s)])

\* C11: a focus name that is the display name of a node selects that node
\* and nothing else; any other focus name selects the first node, in the
\* order of the node map, whose name contains it or is contained in it; so
\* the styled ids are the ids of these nodes, and there are no more style
\* lines than focus names.
C11_FocusResolution ==
    Done =>
        /\ Range(StyleIds) = Range(TargetIds(graph.center_persons))
        /\ Len(StyleIds) <= Len(graph.center_persons)
        /\ \A f \in Range(graph.center_persons) : Cardinality(FocusTarget(f)) <= 1

\* 'B' names a node although 'AB', which contains it, comes first in the
\* map; 'ABC' names none, holds all three names and selects the first, 'AB'
C11_Witness ==
    /\ Done
    /\ IdsInjective
    /\ DeclaredNames = {StrAB, StrB, StrC}
    /\ setOrder = <<StrAB, StrB, StrC>>
    /\ graph.center_persons = <<StrB, StrABC>>
    /\ StyleIds = <<DeclaredId(StrB), DeclaredId(StrAB)>>

\* C12: no node id is on more than one style line, also when several focus
\* names select the same node, and the style lines are in the order in
\* which their nodes were first selected.
C12_HighlightDedup ==
    Done =>
        /\ \A a, b \in DOMAIN StyleIds : a # b => StyleIds[a] # StyleIds[b]
        /\ StyleIds = FirstOccurrences(TargetIds(graph.center_persons))

\* 'A' (part of 'AB') and 'AB' select the same node: one style line
C12_Witness ==
    /\ Done
    /\ graph.center_persons = <<StrA, StrAB>>
    /\ StrAB \in DeclaredNames
    /\ FocusTarget(StrA) = {StrAB}
    /\ StyleIds = <<DeclaredId(StrAB)>>

\* the graph without the focus names that select no node
WithoutMisses ==
    [graph EXCEPT !.center_persons = SelectSeq(@, LAMBDA f : FocusTarget(f) # {})]

\* C13: a focus name that matches no node leaves no style line and raises
\* nothing, and the text is the one returned without it; no relationships
\* and one focus name give the header alone: no node, no edge, no style line.
C13_MissIsSilent ==
    Done =>
        /\ exc = "none"
        /\ out = Compile(WithoutMisses, hashOf, setOrder)
        /\ Len(StyleIds) <= Len(WithoutMisses.center_persons)
        /\ graph.relationships = <<>> => out = <<[t |-> "header"]>>

\* 'X' matches no node, 'B' names one: the one style line is that of 'B'
C13_Witness ==
    /\ Done
    /\ graph.center_persons = <<StrX, StrB>>
    /\ StrB \in DeclaredNames
    /\ FocusTarget(StrX) = {}
    /\ StyleIds = <<DeclaredId(StrB)>>

-----------------------------------------------------------------------------
\* records of A->B and B->B in no group, or in a group whose name is plain,
\* only middle dots, only a blank, holds a middle dot, or mixes characters
\* the sanitizer keeps with characters it removes
GroupNames == {StrEmpty, StrG, StrDots, StrBlank, StrGDotH, StrMixed}

GroupRels == Rels({StrA, StrB}, {StrB}, {"directed"}, {StrEmpty}, GroupNames)

InitGroup == InitOn(Graphs(GroupRels, {}), CoreProcs)

SpecGroup == InitGroup /\ [][Next]_vars

\* the names on the subgraph lines of the returned text, in order
SubgraphNames ==
    LET s == SelectSeq(out, LAMBDA l : l.t = "subgraph")
    IN  [k \in DOMAIN s |-> s[k].name]

\* ASCII alphanumerics, underscore, whitespace, Hiragana (U+3040-U+309F),
\* Katakana (U+30A0-U+30FE, the middle dot U+30FB being punctuation) and
\* CJK ideographs (U+4E00-U+9FFF)
AllowListed(c) ==
    \/ (c >= 48 /\ c <= 57) \/ (c >= 65 /\ c <= 90) \/ (c >= 97 /\ c <= 122)
    \/ c = 95
    \/ c \in {9, 10, 11, 12, 13, 28, 29, 30, 31, 32, 133, 160, 5760, 8232,
              8233, 8239, 8287, 12288} \/ (c >= 8192 /\ c <= 8202)
    \/ (c >= 12352 /\ c <= 12447)
    \/ (c >= 12448 /\ c <= 12542 /\ c # 12539)
    \/ (c >= 19968 /\ c <= 40959)

\* not one character that is no whitespace
BlankStr(s) == \A k \in DOMAIN s : IsSpace(s[k])

\* C14: the name on every subgraph line is the raw name of its group
\* without the characters outside the allow-list, or 'group' when nothing
\* but whitespace is left of it; so it is never empty or whitespace-only.
C14_GroupNameSanitized ==
    Done =>
        /\ Len(SubgraphNames) = Len(groups)
        /\ \A k \in DOMAIN SubgraphNames :
               LET left == SelectSeq(groups[k].name, AllowListed)
               IN  /\ SubgraphNames[k] =
                          IF BlankStr(left) THEN <<103, 114, 111, 117, 112>>
                          ELSE left
                   /\ ~BlankStr(SubgraphNames[k])

\* a group named by middle dots alone is emitted as 'group', and a group
\* of a mixed name without its '-' and '!'
C14_Witness ==
    /\ Done
    /\ Len(groups) = 2
    /\ groups[1].name = StrDots
    /\ groups[2].name = StrMixed
    /\ SubgraphNames = << <<103, 114, 111, 117, 112>>,
                          <<12354, 12450, 23478, 95, 49>> >>

\* the entries of groups named g
GroupEntries(g) == {k \in DOMAIN groups : groups[k].name = g}

\* the records among Ks with group g give the group g exactly their names
MembersFrom(Ks) ==
    /\ \A k \in Ks :
           graph.relationships[k].group # <<>> =>
               \E n \in GroupEntries(graph.relationships[k].group) :
                   {graph.relationships[k].source, graph.relationships[k].target}
                       \subseteq groups[n].members
    /\ \A n \in DOMAIN groups :
           /\ Cardinality(GroupEntries(groups[n].name)) = 1
           /\ groups[n].members =
                  UNION {{graph.relationships[k].source, graph.relationships[k].target} :
                             k \in {j \in Ks : graph.relationships[j].group = groups[n].name}}

\* C15: every record with valid names and a group gives both its names to
\* the member set of that group, a record dropped as a duplicate of an
\* earlier ordered pair included.
C15_EveryValidRecordJoins ==
    Done => MembersFrom({k \in DOMAIN graph.relationships : Kept(k)})

\* C15 as amended: the records that give their names to their group are the
\* first records of their ordered pair.
C15_FirstOfPairJoins ==
    Done => MembersFrom({k \in DOMAIN graph.relationships : FirstOfPair(k)})

\* A->B in one group and B->B in another: B is a member of both, and a
\* member of the second once although the record names it twice
C15_Witness ==
    /\ Done
    /\ Len(graph.relationships) = 2
    /\ Len(groups) = 2
    /\ groups[1].members = {StrA, StrB}
    /\ groups[2].members = {StrB}
    /\ Len(SelectSeq(out, LAMBDA l : l.t = "member")) = 3

-----------------------------------------------------------------------------
\* the names 'A', 'AB' and 'B' (one a prefix of another), with and without
\* a group, 'AB' as center person
LayoutRels ==
    Rels({StrAB, StrB}, {StrA, StrB}, {"directed"}, {StrEmpty}, {StrEmpty, StrG})

\* ids in the order of the names, and in another order
LayoutProcs ==
    { [hash |-> (StrA :> 7 @@ StrAB :> -8 @@ StrB :> 10009),
       order |-> <<StrA, StrAB, StrB>>],
      [hash |-> (StrA :> -40123 @@ StrAB :> 5 @@ StrB :> 7),
       order |-> <<StrB, StrAB, StrA>>] }

InitLayout == InitOn(Graphs(LayoutRels, {StrAB}), LayoutProcs)

SpecLayout == InitLayout /\ [][Next]_vars

\* the section a line belongs to; the empty lines between sections to none
SectionOf(l) ==
    CASE l.t = "header" -> 0
      [] l.t = "node" -> 1
      [] l.t \in {"subgraph", "member", "end"} -> 2
      [] l.t = "edge" -> 3
      [] l.t = "style" -> 4
      [] OTHER -> -1

\* the lines of the subgraph blocks of the returned text, in order
BlockLinesOf(ls) == SelectSeq(ls, LAMBDA l : SectionOf(l) = 2)

\* C16: the text starts with the header line; the sections follow in the
\* order header, node declarations, subgraph blocks, edge lines, style
\* lines, no line of a later section before a line of an earlier one; the
\* declarations are one per node, in ascending order of the display names;
\* each subgraph block is its subgraph line, its member lines and 'end'.
C16_SectionOrder ==
    Done =>
        /\ out[1] = [t |-> "header"]
        /\ \A a \in DOMAIN out : out[a].t = "header" => a = 1
        /\ \A a, b \in DOMAIN out :
               (a < b /\ SectionOf(out[a]) >= 0 /\ SectionOf(out[b]) >= 0) =>
                   SectionOf(out[a]) <= SectionOf(out[b])
        /\ \A a, b \in DOMAIN NodeLinesOf(out) :
               a < b => LexLess(NodeLinesOf(out)[a].name, NodeLinesOf(out)[b].name)
        /\ DeclaredNames =
               UNION {{graph.relationships[k].source, graph.relationships[k].target} :
                          k \in {j \in DOMAIN graph.relationships : Kept(j)}}
        /\ \A a \in DOMAIN BlockLinesOf(out) :
               LET l == BlockLinesOf(out)
               IN  /\ l[a].t = "subgraph" => (a = 1 \/ l[a - 1].t = "end")
                   /\ l[a].t \in {"member", "end"} =>
                          (a > 1 /\ l[a - 1].t \in {"subgraph", "member"})
                   /\ a = Len(l) => l[a].t = "end"

\* three declarations, a subgraph block, two edges and a style line
C16_Witness ==
    /\ Done
    /\ Len(NodeLinesOf(out)) = 3
    /\ [k \in 1..3 |-> NodeLinesOf(out)[k].name] = <<StrA, StrAB, StrB>>
    /\ NodeLinesOf(out)[1].id > NodeLinesOf(out)[2].id
    /\ Len(BlockLinesOf(out)) >= 4
    /\ Len(EdgeLinesOf(out)) = 2
    /\ Len(StyleIds) = 1

-----------------------------------------------------------------------------
(* build_mermaid_without_subgraph: the same compiler without the groups and *)
(* without the counters.                                                    *)

\* mutant: a record of a pair that has an edge is not skipped
CollectNoSubgraph_NoDedup(st, rel) ==
    IF IsInvalid(rel) \/ IsEmpty(rel) THEN st
    ELSE [st EXCEPT !.nodes = @ \cup {rel.source, rel.target},
                    !.edges = Append(@, EdgeOf(rel)),
                    !.edge_map = @ \cup {EdgeKey(rel)}]

\* one iteration of its loop over graph.relationships
CollectNoSubgraph(st, rel) ==
    IF IsInvalid(rel) \/ IsEmpty(rel) \/ IsDuplicate(st.edge_map, rel) THEN st
    ELSE [st EXCEPT !.nodes = @ \cup {rel.source, rel.target},
                    !.edges = Append(@, EdgeOf(rel)),
                    !.edge_map = @ \cup {EdgeKey(rel)}]

\* a call of build_mermaid_without_subgraph
EntryNoSubgraph ==
    /\ pc = "ns_collect"
    /\ exc = "none"
    /\ i = 1
    /\ nodes = {}
    /\ edges = <<>>
    /\ groups = <<>>
    /\ edge_map = {}
    /\ filtered_count = [invalid |-> 0, empty |-> 0, duplicate |-> 0]
    /\ node_ids = <<>>
    /\ lines = Header
    /\ out = <<>>

\* one iteration of "for rel in graph.relationships"
NsRecord ==
    /\ pc = "ns_collect"
    /\ i <= Len(graph.relationships)
    /\ LET st == CollectNoSubgraph([nodes |-> nodes, edges |-> edges,
                                    edge_map |-> edge_map],
                                   graph.relationships[i])
       IN  /\ nodes' = st.nodes
           /\ edges' = st.edges
           /\ edge_map' = st.edge_map
    /\ i' = i + 1
    /\ UNCHANGED <<procVars, pc, groups, filtered_count, node_ids, lines, out>>

\* node_ids and the node declarations
NsNodes ==
    /\ pc = "ns_collect"
    /\ i > Len(graph.relationships)
    /\ node_ids' = NodeIds(hashOf, nodes)
    /\ lines' = lines \o NodeLines(nodes, node_ids')
    /\ pc' = "ns_edges"
    /\ UNCHANGED <<procVars, collVars, i, out>>

\* the edge lines
NsEdges ==
    /\ pc = "ns_edges"
    /\ lines' = lines \o EdgeLines(edges, node_ids)
    /\ pc' = "ns_style"
    /\ UNCHANGED <<procVars, collVars, i, node_ids, out>>

\* the style lines
NsStyles ==
    /\ pc = "ns_style"
    /\ lines' = lines \o StyleLines(graph.center_persons, node_ids, setOrder)
    /\ pc' = "ns_return"
    /\ UNCHANGED <<procVars, collVars, i, node_ids, out>>

\* return '\n'.join(filtered_lines)
NsReturn ==
    /\ pc = "ns_return"
    /\ out' = PopBlank(lines)
    /\ pc' = "done"
    /\ UNCHANGED <<procVars, collVars, i, node_ids, lines>>

NextNoSubgraph ==
    \/ NsRecord
    \/ NsNodes
    \/ NsEdges
    \/ NsStyles
    \/ NsReturn

\* a usable record and one with a placeholder, with and without a group
TrailRels ==
    Rels({StrA, StrUnknown}, {StrB}, {"directed"}, {StrEmpty}, {StrEmpty, StrG})

TrailProcs ==
    { [hash |-> (StrA :> 7 @@ StrB :> -8 @@ StrUnknown :> 9),
       order |-> <<StrB, StrA, StrUnknown>>] }

\* a call of either compiler
InitTrail ==
    /\ graph \in Graphs(TrailRels, {StrA, StrX})
    /\ other = NoFrame
    /\ gen = NoFrame
    /\ chat = NoFrame
    /\ \E p \in TrailProcs : hashOf = p.hash /\ setOrder = p.order
    /\ run = 1
    /\ prev = <<>>
    /\ csv_text = <<>>
    /\ main_focus = <<>>
    /\ Entry \/ EntryNoSubgraph

NextTrail ==
    \/ Next
    \/ NextNoSubgraph

SpecTrail == InitTrail /\ [][NextTrail]_vars

\* C17: the text either compiler returns does not end with an empty line:
\* it has a last line and that line is not empty.  (The last line is the
\* header, a declaration, 'end', an edge or a style line, which end in
\* characters of the program, not in characters of a group name.)
C17_NoTrailingEmptyLine ==
    Done =>
        /\ out # <<>>
        /\ out[Len(out)] # [t |-> "blank"]
        /\ out[Len(out)].t \in {"header", "node", "end", "edge", "style"}

\* no usable record and a focus name: the two empty lines after the header
\* are not returned
C17_Witness ==
    /\ Done
    /\ Len(graph.relationships) > 0
    /\ Len(graph.center_persons) > 0
    /\ lines = <<[t |-> "header"], [t |-> "blank"], [t |-> "blank"]>>
    /\ out = <<[t |-> "header"]>>

-----------------------------------------------------------------------------
(* The same graph compiled again: by another call in the same interpreter   *)
(* process, or after the program was started anew.  hash() of a str is      *)
(* salted per process (nothing in the repository sets PYTHONHASHSEED), so a *)
(* new process draws a new hash and a new set order.                        *)

\* what the finished call leaves behind
Finished == Append(prev, [run |-> run, out |-> out])

\* the locals of the next call
Reenter ==
    /\ pc' = "collect"
    /\ i' = 1
    /\ nodes' = {}
    /\ edges' = <<>>
    /\ groups' = <<>>
    /\ edge_map' = {}
    /\ filtered_count' = [invalid |-> 0, empty |-> 0, duplicate |-> 0]
    /\ node_ids' = <<>>
    /\ lines' = Header
    /\ out' = <<>>

\* build_mermaid_from_structured(graph) is called once more in this process
CallAgain ==
    /\ pc = "done"
    /\ Len(prev) + 1 < MaxCalls
    /\ prev' = Finished
    /\ Reenter
    /\ UNCHANGED <<graph, hashOf, setOrder, run, csv_text, main_focus, exc,
                   other, gen, chat>>

\* the program is started anew and compiles the same graph
NewProcess(ProcU) ==
    /\ pc = "done"
    /\ Len(prev) + 1 < MaxCalls
    /\ prev' = Finished
    /\ run' = run + 1
    /\ \E p \in ProcU : hashOf' = p.hash /\ setOrder' = p.order
    /\ Reenter
    /\ UNCHANGED <<graph, csv_text, main_focus, exc, other, gen, chat>>

RunRels == Rels({StrA, StrB}, {StrB}, {"directed"}, {StrAbc}, {StrEmpty, StrG})

RunProcs == Processes({StrA, StrB}, {7, 8, -40123})

NextRuns ==
    \/ Next
    \/ CallAgain
    \/ NewProcess(RunProcs)

InitRuns == InitOn(Graphs(RunRels, {StrA}), RunProcs)

SpecRuns == InitRuns /\ [][NextRuns]_vars

-----------------------------------------------------------------------------
(* The validity filter applied to its own result: the records the two tests *)
(* of the loop let through are handed to the compiler once more.            *)

\* the compiler is called on the records that passed its validity tests
Refilter ==
    /\ pc = "done"
    /\ Len(prev) + 1 < MaxCalls
    /\ prev' = Append(prev, [run |-> run, out |-> out,
                             filtered_count |-> filtered_count])
    /\ graph' = [graph EXCEPT !.relationships = Filter(@)]
    /\ Reenter
    /\ UNCHANGED <<hashOf, setOrder, run, csv_text, main_focus, exc, other, gen,
                   chat>>

\* plain names, a placeholder, a placeholder with blanks around it, a blank
\* and an empty name
RefilterRels ==
    Rels({StrA, StrUnknown, StrPaddedUnknown, StrBlank}, {StrB, StrEmpty},
         {"directed"}, {StrAbc}, {StrEmpty})

NextRefilter ==
    \/ Next
    \/ Refilter

InitRefilter == InitOn(Graphs(RefilterRels, {}), FilterProcs)

SpecRefilter == InitRefilter /\ [][NextRefilter]_vars

\* C18: filtering is idempotent: the records that passed the invalid-name
\* test and the empty/whitespace test all pass them again, none is dropped
\* and the list is the same, records and order.  (In every call the two
\* counters count the records that are not let through.)
C18_FilterIdempotent ==
    Done =>
        /\ Len(Filter(graph.relationships)) =
               Len(graph.relationships) - filtered_count.invalid - filtered_count.empty
        /\ prev # <<>> =>
               /\ filtered_count.invalid = 0
               /\ filtered_count.empty = 0
               /\ Filter(graph.relationships) = graph.relationships

\* the first call dropped a record for its placeholder; the record with the
\* padded placeholder passed, and passes again
C18_Witness ==
    /\ Done
    /\ Len(prev) = 1
    /\ prev[1].filtered_count.invalid = 1
    /\ Len(graph.relationships) = 1
    /\ graph.relationships[1].source = StrPaddedUnknown
    /\ filtered_count.invalid = 0
    /\ Len(edges) = 1

\* C8: every call on the same graph returns the same text, in the same and
\* in a different run of the program.
C8_SameTextEveryCall ==
    Done => \A n \in DOMAIN prev : prev[n].out = out

\* calls of one process on the same graph return the same text
SameProcessSameText ==
    Done => \A n \in DOMAIN prev : prev[n].run = run => prev[n].out = out

-----------------------------------------------------------------------------
(* Two calls of build_mermaid_from_structured in two threads of one process. *)
(* Each call has its own locals; the threads share the interpreter, and so   *)
(* hash().  The steps of the two calls interleave in any order.              *)

\* the variables of the first call and of the process
selfVars == <<graph, hashOf, setOrder, pc, i, nodes, edges, groups, edge_map,
              filtered_count, node_ids, lines, out, run, prev, csv_text,
              main_focus, exc>>

\* the locals of a call on graph g, at its start
FrameEntry(g) ==
    [graph |-> g, pc |-> "collect", i |-> 1, nodes |-> {}, edges |-> <<>>,
     groups |-> <<>>, edge_map |-> {},
     filtered_count |-> [invalid |-> 0, empty |-> 0, duplicate |-> 0],
     node_ids |-> <<>>, lines |-> Header, out |-> <<>>]

\* mutant: edge_map is one dict for all calls
OtherLocals_SharedEdgeMap ==
    [nodes |-> other.nodes, edges |-> other.edges, groups |-> other.groups,
     edge_map |-> other.edge_map \cup edge_map,
     filtered_count |-> other.filtered_count]

\* the collections the loop of the other call reads and writes: its own
OtherLocals ==
    [nodes |-> other.nodes, edges |-> other.edges, groups |-> other.groups,
     edge_map |-> other.edge_map, filtered_count |-> other.filtered_count]

\* the other call: one iteration of "for rel in graph.relationships"
OtherStepRecord ==
    /\ other.pc = "collect"
    /\ other.i <= Len(other.graph.relationships)
    /\ LET st == Collect(OtherLocals, other.graph.relationships[other.i])
       IN  other' = [other EXCEPT !.nodes = st.nodes,
                                  !.edges = st.edges,
                                  !.groups = st.groups,
                                  !.edge_map = st.edge_map,
                                  !.filtered_count = st.filtered_count,
                                  !.i = @ + 1]
    /\ UNCHANGED <<selfVars, gen, chat>>

\* the other call: node_ids and the node declarations
OtherAssignIds ==
    /\ other.pc = "collect"
    /\ other.i > Len(other.graph.relationships)
    /\ other' = [other EXCEPT
                     !.node_ids = NodeIds(hashOf, other.nodes),
                     !.lines = @ \o NodeLines(other.nodes,
                                              NodeIds(hashOf, other.nodes)),
                     !.pc = "groups"]
    /\ UNCHANGED <<selfVars, gen, chat>>

\* the other call: the subgraph blocks
OtherEmitGroups ==
    /\ other.pc = "groups"
    /\ other' = [other EXCEPT
                     !.lines = @ \o GroupLines(other.groups, other.node_ids),
                     !.pc = "edges"]
    /\ UNCHANGED <<selfVars, gen, chat>>

\* the other call: the edge lines
OtherEmitEdges ==
    /\ other.pc = "edges"
    /\ other' = [other EXCEPT
                     !.lines = @ \o EdgeLines(other.edges, other.node_ids),
                     !.pc = "style"]
    /\ UNCHANGED <<selfVars, gen, chat>>

\* the other call: the style lines
OtherEmitStyles ==
    /\ other.pc = "style"
    /\ other' = [other EXCEPT
                     !.lines = @ \o StyleLines(other.graph.center_persons,
                                               other.node_ids, setOrder),
                     !.pc = "return"]
    /\ UNCHANGED <<selfVars, gen, chat>>

\* the other call: return '\n'.join(filtered_lines)
OtherReturn ==
    /\ other.pc = "return"
    /\ other' = [other EXCEPT !.out = PopBlank(other.lines), !.pc = "done"]
    /\ UNCHANGED <<selfVars, gen, chat>>

\* A->B and B->B, with and without a group
ThreadRels ==
    Rels({StrA, StrB}, {StrB}, {"directed"}, {StrEmpty}, {StrEmpty, StrG})

ThreadProcs ==
    { [hash |-> (StrA :> 7 @@ StrB :> -8), order |-> <<StrA, StrB>>] }

InitThreads ==
    /\ graph \in Graphs(ThreadRels, {})
    /\ other \in {FrameEntry(g) : g \in Graphs(ThreadRels, {})}
    /\ gen = NoFrame
    /\ chat = NoFrame
    /\ \E p \in ThreadProcs : hashOf = p.hash /\ setOrder = p.order
    /\ run = 1
    /\ prev = <<>>
    /\ csv_text = <<>>
    /\ main_focus = <<>>
    /\ Entry

NextThreads ==
    \/ Next
    \/ OtherStepRecord
    \/ OtherAssignIds
    \/ OtherEmitGroups
    \/ OtherEmitEdges
    \/ OtherEmitStyles
    \/ OtherReturn

SpecThreads == InitThreads /\ [][NextThreads]_vars

\* C19: however the steps of two calls interleave, each call returns the
\* text it returns when it runs alone, and the graphs are as they were
\* handed in.
C19_ThreadsDoNotInterfere ==
    /\ Done => out = Compile(graph, hashOf, setOrder)
    /\ other.pc = "done" => other.out = Compile(other.graph, hashOf, setOrder)
    /\ graph \in Graphs(ThreadRels, {})
    /\ other.graph \in Graphs(ThreadRels, {})

\* both calls have returned; their graphs differ and share an ordered pair
C19_Witness ==
    /\ Done
    /\ other.pc = "done"
    /\ other.graph # graph
    /\ edge_map \cap other.edge_map # {}
    /\ out # other.out
    /\ Len(EdgeLinesOf(other.out)) = 2

-----------------------------------------------------------------------------
(* generate_mermaid_file: the center persons are asked for, the structured  *)
(* graph is generated and compiled, the text is saved and rendered; a       *)
(* failed rendering is followed by a regeneration, up to max_retries        *)
(* renderings.  The answers of the services are drawn: a call returns or    *)
(* raises.                                                                   *)

\* everything but the locals of generate_mermaid_file and exc
renderFixed == <<graph, hashOf, setOrder, pc, i, nodes, edges, groups, edge_map,
                 filtered_count, node_ids, lines, out, run, prev, csv_text,
                 main_focus, other, chat>>

\* '主人公'
StrHero == <<20027, 20154, 20844>>

\* f"graph LR\n    {main_focus}"
FallbackText(mf) == <<[t |-> "header"], [t |-> "raw", text |-> mf]>>

\* the graphs the structured generation may return
RenderRels == Rels({StrA}, {StrB}, {"directed", "dotted"}, {StrEmpty}, {StrEmpty})

\* what client.beta.chat.completions.parse(...) and the lines after it in
\* the same try block come to: a parsed graph whose text is then saved or
\* not, or an exception before there is a graph
GenerationOutcomes ==
    {[ok |-> TRUE, graph_data |-> g, saved |-> s] :
         g \in Graphs(RenderRels, {}), s \in BOOLEAN}
    \cup {[ok |-> FALSE]}

\* the locals at the start of the call; sent is the text of each request to
\* the renderer and regen what each regeneration came to, in order
GenEntry ==
    [pc |-> "who", main_focus |-> <<>>, final_mermaid |-> <<>>, mmd |-> <<>>,
     retry_count |-> 0, attempts |-> 0, regenerations |-> 0,
     result |-> "pending", shown |-> <<>>,
     sent |-> <<>>, regen |-> <<>>]

\* Step 1: main_focus is the answer of the model, or '主人公' when the call
\* raises or names nobody
IdentifyFocus ==
    /\ gen.pc = "who"
    /\ \E mf \in {StrA, StrHero} :
           gen' = [gen EXCEPT !.main_focus = mf, !.pc = "structured"]
    /\ UNCHANGED <<renderFixed, exc>>

\* Step 2: the graph is generated and compiled; on any exception the text
\* is the minimal diagram of main_focus
GenerateStructured ==
    /\ gen.pc = "structured"
    /\ \E o \in GenerationOutcomes :
           gen' = [gen EXCEPT
                       !.final_mermaid =
                           IF o.ok THEN Compile(o.graph_data, hashOf, setOrder)
                           ELSE FallbackText(gen.main_focus),
                       !.pc = "save"]
    /\ UNCHANGED <<renderFixed, exc>>

\* mmd_path.write_text(final_mermaid): outside every try block
SaveMmd ==
    /\ gen.pc = "save"
    /\ \E written \in BOOLEAN :
           IF written
           THEN /\ gen' = [gen EXCEPT !.mmd = gen.final_mermaid, !.pc = "loop"]
                /\ exc' = exc
           ELSE /\ gen' = [gen EXCEPT !.pc = "raised"]
                /\ exc' = "OSError"
    /\ UNCHANGED renderFixed

\* the head of the while loop and its try block: the text is sent to the
\* renderer; the SVG is written and its path returned, or an exception is
\* raised.  (The guard on attempts bounds the count of renderings.)
RenderAttempt ==
    /\ gen.pc = "loop"
    /\ gen.attempts <= max_retries
    /\ IF gen.retry_count < max_retries
       THEN \E rendered \in BOOLEAN :
                gen' = [gen EXCEPT
                            !.attempts = @ + 1,
                            !.sent = Append(@, gen.final_mermaid),
                            !.result = IF rendered THEN "svg_path" ELSE @,
                            !.pc = IF rendered THEN "returned" ELSE "failed"]
       ELSE gen' = [gen EXCEPT !.result = "None", !.pc = "returned"]
    /\ UNCHANGED <<renderFixed, exc>>

\* mutant: the regeneration is tried after the last rendering as well
MayRegenerate_OffByOne(retry_count) == retry_count <= max_retries

\* if retry_count < max_retries
MayRegenerate(retry_count) == retry_count < max_retries

\* mutant: the text that failed is kept whatever the regeneration returns
Regenerated_SameText(final_mermaid, o) == final_mermaid

\* final_mermaid after the inner try block: the text compiled from the new
\* graph, or, when the block raised before the assignment, the text as it was
Regenerated(final_mermaid, o) ==
    IF o.ok THEN Compile(o.graph_data, hashOf, setOrder) ELSE final_mermaid

\* the except block: the failure is counted; then the graph is generated
\* anew (a failure of that leaves the text as it is), or, after the last
\* rendering, the text is shown and None returned
HandleFailure ==
    /\ gen.pc = "failed"
    /\ IF MayRegenerate(gen.retry_count + 1)
       THEN \E o \in GenerationOutcomes :
                gen' = [gen EXCEPT
                            !.retry_count = @ + 1,
                            !.regenerations = @ + 1,
                            !.regen = Append(@, o),
                            !.final_mermaid = Regenerated(@, o),
                            !.mmd = IF o.ok /\ o.saved
                                    THEN Compile(o.graph_data, hashOf, setOrder)
                                    ELSE @,
                            !.pc = "loop"]
       ELSE gen' = [gen EXCEPT !.retry_count = @ + 1,
                               !.shown = Append(@, gen.final_mermaid),
                               !.result = "None",
                               !.pc = "returned"]
    /\ UNCHANGED <<renderFixed, exc>>

InitRender ==
    /\ graph = [relationships |-> <<>>, center_persons |-> <<>>]
    /\ other = NoFrame
    /\ gen = GenEntry
    /\ chat = NoFrame
    /\ \E p \in CoreProcs : hashOf = p.hash /\ setOrder = p.order
    /\ run = 1
    /\ prev = <<>>
    /\ csv_text = <<>>
    /\ main_focus = <<>>
    /\ Entry

NextRender ==
    \/ IdentifyFocus
    \/ GenerateStructured
    \/ SaveMmd
    \/ RenderAttempt
    \/ HandleFailure

SpecRender == InitRender /\ [][NextRender]_vars

\* the call proceeds as long as it has not returned or raised
SpecRenderFair == SpecRender /\ WF_vars(NextRender)

\* C20: the text is rendered at most 3 times and the graph regenerated at
\* most 2 times; the call returns the SVG path at the first rendering that
\* succeeds, all renderings before it having failed; after the third
\* failed rendering it shows the text it has and returns None; no
\* exception of the structured generation, of a rendering or of a
\* regeneration leaves the function (the one exception that does is that of
\* the write of the .mmd file before the loop).
C20_BoundedRetries ==
    /\ gen.attempts <= 3
    /\ gen.regenerations <= 2
    /\ gen.pc = "returned" =>
           /\ gen.result \in {"svg_path", "None"}
           /\ gen.result = "svg_path" =>
                  /\ gen.attempts = gen.retry_count + 1
                  /\ gen.regenerations = gen.retry_count
                  /\ gen.shown = <<>>
           /\ gen.result = "None" =>
                  /\ gen.attempts = 3
                  /\ gen.retry_count = 3
                  /\ gen.regenerations = 2
                  /\ gen.shown = <<gen.final_mermaid>>
    /\ gen.pc # "returned" => gen.result = "pending"
    /\ exc # "none" => (gen.pc = "raised" /\ gen.attempts = 0)
    /\ gen.pc = "raised" => exc # "none"

\* the structured generation and both regenerations raised and the three
\* renderings failed: the minimal diagram is shown and None returned
C20_Witness ==
    /\ gen.pc = "returned"
    /\ gen.result = "None"
    /\ gen.attempts = 3
    /\ gen.regenerations = 2
    /\ gen.final_mermaid = FallbackText(StrHero)
    /\ gen.shown = <<FallbackText(StrHero)>>
    /\ exc = "none"

\* the call returns or raises
RenderReturns == <>(gen.pc \in {"returned", "raised"})

\* C21 as stated: every request to the renderer after the first sends a text
\* compiled from a graph that a regeneration returned since the request
\* before it.
C21_NeverSameTextAgain ==
    \A k \in 2..Len(gen.sent) :
        /\ Len(gen.regen) >= k - 1
        /\ gen.regen[k - 1].ok

\* C21, amended: every request to the renderer after the first follows one
\* regeneration; it sends the text compiled from the graph that regeneration
\* returned, and, when the regeneration raised, the text of the request
\* before it once more.
C21_RegenerationBeforeRetry ==
    \A k \in 2..Len(gen.sent) :
        /\ Len(gen.regen) >= k - 1
        /\ gen.sent[k] =
               IF gen.regen[k - 1].ok
               THEN Compile(gen.regen[k - 1].graph_data, hashOf, setOrder)
               ELSE gen.sent[k - 1]

\* the first regeneration raised and the second returned a graph with one
\* edge: the second request repeats the first text, the third sends a new one
C21_Witness ==
    /\ Len(gen.sent) = 3
    /\ ~gen.regen[1].ok
    /\ gen.regen[2].ok
    /\ gen.sent[2] = gen.sent[1]
    /\ gen.sent[3] # gen.sent[2]
    /\ Len(EdgeLinesOf(gen.sent[3])) = 1

\* C29: from the first request to the renderer on, the .mmd file holds the
\* text of the last request, also when the call has returned.
C29_MmdIsSubmittedText ==
    (gen.pc \in {"failed", "returned"} /\ Len(gen.sent) > 0) =>
        gen.mmd = gen.sent[Len(gen.sent)]

-----------------------------------------------------------------------------
\* the ids at either end of the edge lines of the returned text
EdgeEndIds ==
    {EdgeLinesOf(out)[n].src : n \in DOMAIN EdgeLinesOf(out)}
    \cup {EdgeLinesOf(out)[n].dst : n \in DOMAIN EdgeLinesOf(out)}

\* C28: every node declaration of the returned text has the id at the
\* source or the target of one of its edge lines, and its name is a name of
\* a record that was kept; so a center person that no kept record names is
\* not declared, and a text without edge lines has no node declaration.
C28_NoIsolatedNode ==
    Done =>
        /\ \A n \in DOMAIN NodeLinesOf(out) :
               /\ NodeLinesOf(out)[n].id \in EdgeEndIds
               /\ NodeLinesOf(out)[n].name \in KeptNames
        /\ \A k \in DOMAIN graph.center_persons :
               graph.center_persons[k] \notin KeptNames =>
                   graph.center_persons[k] \notin DeclaredNames
        /\ EdgeLinesOf(out) = <<>> => NodeLinesOf(out) = <<>>

\* a record with a placeholder is dropped, another is kept, and a center
\* person is named by neither: two declarations, one edge line
C28_Witness ==
    /\ Done
    /\ Len(graph.relationships) = 2
    /\ IsInvalid(graph.relationships[1])
    /\ StrX \in Range(graph.center_persons)
    /\ Len(NodeLinesOf(out)) = 2
    /\ Len(EdgeLinesOf(out)) = 1
    /\ StrX \notin DeclaredNames

-----------------------------------------------------------------------------
\* the edges between two names; the center persons are A and ''
EmptyFocusRels ==
    Rels({StrA, StrB}, {StrA, StrB}, {"directed"}, {StrEmpty}, {StrEmpty})

InitEmptyFocus == InitOn(Graphs(EmptyFocusRels, {StrA, StrEmpty}), CoreProcs)

SpecEmptyFocus == InitEmptyFocus /\ [][Next]_vars

\* the graph without the center persons that are ''
WithoutEmptyFocus ==
    [graph EXCEPT !.center_persons = SelectSeq(@, LAMBDA c : c # StrEmpty)]

\* C30: a center person '' selects no node: the returned text is the text
\* of the graph without the center persons that are '', and has no style
\* line when every center person is ''.
C30_EmptyFocusIsMiss ==
    Done =>
        /\ out = Compile(WithoutEmptyFocus, hashOf, setOrder)
        /\ (\A k \in DOMAIN graph.center_persons :
                graph.center_persons[k] = StrEmpty) => StyleIds = <<>>

-----------------------------------------------------------------------------
\* records of two pairs and one with a placeholder, with and without a
\* label and a group
NoSubgraphRels ==
    Rels({StrA, StrB, StrUnknown}, {StrB}, {"directed"},
         {StrEmpty, StrFriend}, {StrEmpty, StrG})

\* a call of build_mermaid_without_subgraph
InitNoSubgraph ==
    /\ graph \in Graphs(NoSubgraphRels, {StrA, StrX})
    /\ other = NoFrame
    /\ gen = NoFrame
    /\ chat = NoFrame
    /\ \E p \in TrailProcs : hashOf = p.hash /\ setOrder = p.order
    /\ run = 1
    /\ prev = <<>>
    /\ csv_text = <<>>
    /\ main_focus = <<>>
    /\ EntryNoSubgraph

SpecNoSubgraph == InitNoSubgraph /\ [][NextNoSubgraph]_vars

\* the graph with the group of every record set to ''
Ungrouped(g) ==
    [g EXCEPT !.relationships =
                  [k \in DOMAIN g.relationships |->
                       [g.relationships[k] EXCEPT !.group = <<>>]]]

\* C27: build_mermaid_without_subgraph returns, line for line, the text
\* build_mermaid_from_structured returns in the same process for the graph
\* with every group set to ''.
C27_SameAsUngrouped ==
    Done => out = Compile(Ungrouped(graph), hashOf, setOrder)

\* a graph with a group, a duplicate and a center person: the text has its
\* edge and its style line and is not the text compiled with the group
C27_Witness ==
    /\ Done
    /\ Len(graph.relationships) = 2
    /\ EdgeKey(graph.relationships[1]) = EdgeKey(graph.relationships[2])
    /\ graph.relationships[1].group # <<>>
    /\ Len(EdgeLinesOf(out)) = 1
    /\ \E n \in DOMAIN out : out[n].t = "style"
    /\ out # Compile(graph, hashOf, setOrder)
    /\ \A n \in DOMAIN out : out[n].t # "subgraph"

-----------------------------------------------------------------------------
(* openai_chat: client.chat.completions.create is called up to max_retries  *)
(* times; each call returns a response or raises, which the model draws.    *)

\* everything but the locals of openai_chat
chatFixed == <<graph, hashOf, setOrder, pc, i, nodes, edges, groups, edge_map,
               filtered_count, node_ids, lines, out, run, prev, csv_text,
               main_focus, exc, other, gen>>

\* the largest max_retries the model draws
MaxTries == 4

\* the exceptions with an except clause of their own
TransientErrors == {"InternalServerError", "RateLimitError"}

\* what a call of client.chat.completions.create comes to
ApiOutcomes == {"response"} \cup TransientErrors
                   \cup {"APIConnectionError", "BadRequestError"}

\* the locals at the start of openai_chat(max_retries=n); log is what each
\* API call came to and slept the seconds of each time.sleep, in order
ChatEntry(n) ==
    [pc |-> "loop", max_retries |-> n, attempt |-> 0, log |-> <<>>,
     slept |-> <<>>, wait_time |-> 0, result |-> "pending", raised |-> "none"]

\* mutant: the last attempt is followed by a sleep as well
MayRetry_AfterLast(attempt, n) == attempt < n

\* if attempt < max_retries - 1
MayRetry(attempt, n) == attempt < n - 1

\* 2 ** attempt
RECURSIVE Pow2(_)
Pow2(k) == IF k = 0 THEN 1 ELSE 2 * Pow2(k - 1)

\* wait_time of an exception: 2 ** attempt, and 5 * (2 ** attempt) for a
\* rate limit
WaitTime(e, attempt) ==
    IF e = "RateLimitError" THEN 5 * Pow2(attempt) ELSE Pow2(attempt)

\* one pass of "for attempt in range(max_retries)" up to the return, the
\* raise or the time.sleep; after the last pass the function ends without a
\* return statement
ChatAttempt ==
    /\ chat.pc = "loop"
    /\ IF chat.attempt < chat.max_retries
       THEN \E o \in ApiOutcomes :
                chat' =
                    IF o = "response"
                    THEN [chat EXCEPT !.log = Append(@, o),
                                      !.result = Len(chat.log) + 1,
                                      !.pc = "returned"]
                    ELSE IF o \in TransientErrors
                            /\ MayRetry(chat.attempt, chat.max_retries)
                    THEN [chat EXCEPT !.log = Append(@, o),
                                      !.wait_time = WaitTime(o, chat.attempt),
                                      !.pc = "sleep"]
                    ELSE [chat EXCEPT !.log = Append(@, o),
                                      !.raised = o,
                                      !.pc = "raised"]
       ELSE chat' = [chat EXCEPT !.result = "None", !.pc = "returned"]
    /\ UNCHANGED chatFixed

\* time.sleep(wait_time) and the next value of attempt
ChatSleep ==
    /\ chat.pc = "sleep"
    /\ chat' = [chat EXCEPT !.slept = Append(@, chat.wait_time),
                            !.attempt = @ + 1,
                            !.pc = "loop"]
    /\ UNCHANGED chatFixed

InitChat ==
    /\ graph = [relationships |-> <<>>, center_persons |-> <<>>]
    /\ other = NoFrame
    /\ gen = NoFrame
    /\ \E n \in 1..MaxTries : chat = ChatEntry(n)
    /\ \E p \in CoreProcs : hashOf = p.hash /\ setOrder = p.order
    /\ run = 1
    /\ prev = <<>>
    /\ csv_text = <<>>
    /\ main_focus = <<>>
    /\ Entry

NextChat ==
    \/ ChatAttempt
    \/ ChatSleep

SpecChat == InitChat /\ [][NextChat]_vars

\* C26: openai_chat(max_retries=n) with n >= 1 calls the API at most n
\* times; every call but the last raised InternalServerError or
\* RateLimitError and was one of the first n - 1; it returns the response
\* of the call that succeeded, which is the first to succeed; it raises the
\* transient error of the n-th call, or any other exception of the call
\* that raised it; it returns or raises nothing else.
C26_BoundedApiCalls ==
    LET calls == Len(chat.log)
    IN  /\ calls <= chat.max_retries
        /\ \A k \in 1..(calls - 1) :
               chat.log[k] \in TransientErrors /\ k < chat.max_retries
        /\ Len(chat.slept) \in {calls - 1, calls}
        /\ chat.pc \in {"loop", "sleep"} =>
               /\ chat.result = "pending" /\ chat.raised = "none"
               /\ \A k \in 1..calls : chat.log[k] \in TransientErrors
        /\ chat.pc = "returned" =>
               /\ calls >= 1
               /\ chat.log[calls] = "response"
               /\ chat.result = calls
               /\ chat.raised = "none"
        /\ chat.pc = "raised" =>
               /\ calls >= 1
               /\ chat.raised = chat.log[calls]
               /\ chat.raised # "response"
               /\ chat.raised \in TransientErrors => calls = chat.max_retries
               /\ chat.result = "pending"

\* max_retries = 3: a server error, a rate limit, then a response, after
\* sleeps of 1 and 10 seconds
C26_Witness ==
    /\ chat.pc = "returned"
    /\ chat.max_retries = 3
    /\ chat.log = <<"InternalServerError", "RateLimitError", "response">>
    /\ chat.slept = <<1, 10>>
    /\ chat.result = 3

-----------------------------------------------------------------------------
(* build_mermaid_from_csv (src/model_comparison_test.py).  The texts drawn   *)
(* hold no quote character and no line break other than '\n', so that       *)
(* csv.reader splits each line of the text at its commas.                   *)

\* s.split(sep), for a one-character sep
RECURSIVE SplitOn(_, _)
SplitOn(s, sep) ==
    IF \A k \in DOMAIN s : s[k] # sep THEN <<s>>
    ELSE LET at == CHOOSE k \in DOMAIN s :
                       s[k] = sep /\ \A j \in 1..(k - 1) : s[j] # sep
         IN  <<SubSeq(s, 1, at - 1)>> \o SplitOn(SubSeq(s, at + 1, Len(s)), sep)

\* text.splitlines()
SplitLines(text) ==
    IF text = <<>> THEN <<>>
    ELSE LET parts == SplitOn(text, 10)
         IN  IF parts[Len(parts)] = <<>> THEN SubSeq(parts, 1, Len(parts) - 1)
             ELSE parts

\* the row csv.reader yields for one line: [] for an empty line
ReadRow(line) == IF line = <<>> THEN <<>> ELSE SplitOn(line, 44)

\* list(csv.reader(csv_text.splitlines()))
Reader(text) ==
    LET ls == SplitLines(text) IN [k \in DOMAIN ls |-> ReadRow(ls[k])]

\* s.lower(), for the letters of ASCII
Lower(s) == [k \in DOMAIN s |-> IF s[k] \in 65..90 THEN s[k] + 32 ELSE s[k]]

\* ['主体', '関係', 'source', 'Source']
CsvHeaderNames ==
    { <<20027, 20307>>, <<38306, 20418>>,
      <<115, 111, 117, 114, 99, 101>>, <<83, 111, 117, 114, 99, 101>> }

\* row[0] of the first row, when the row is empty: IndexError
CsvRowRaises(k, row) == k = 1 /\ row = <<>>

\* the header row and the rows of fewer than 4 fields are skipped
CsvRowSkipped(k, row) ==
    \/ k = 1 /\ Strip(row[1]) \in CsvHeaderNames
    \/ Len(row) < 4

\* src, rel_type, rel_label, dst and group of a row of at least 4 fields
CsvRel(row) ==
    [source |-> Strip(row[1]), relation_type |-> Strip(row[2]),
     label |-> Strip(row[3]), target |-> Strip(row[4]),
     group |-> IF Len(row) > 4 THEN Strip(row[5]) ELSE <<>>]

\* the arrow of a rel_type
CsvEdgeSymbol(rel_type) ==
    IF Lower(rel_type) \in { <<98, 105, 100, 105, 114, 101, 99, 116, 105, 111,
                               110, 97, 108>>,            \* 'bidirectional'
                             <<21452, 26041, 21521>> }    \* '双方向'
    THEN "<-->"
    ELSE IF Lower(rel_type) \in { <<100, 111, 116, 116, 101, 100>>,  \* 'dotted'
                                  <<28857, 32218>> }                 \* '点線'
    THEN "-.->"
    ELSE "-->"

\* one iteration of the loop over the rows, on a row that is not skipped
CsvCollect(st, rel) ==
    IF rel.source \in INVALID_NODES \/ rel.target \in INVALID_NODES THEN st
    ELSE IF rel.source = <<>> \/ rel.target = <<>> THEN st
    ELSE IF <<rel.source, rel.target>> \in st.edge_map THEN st
    ELSE [nodes |-> st.nodes \cup {rel.source, rel.target},
          edges |-> Append(st.edges,
                           [src |-> rel.source, dst |-> rel.target,
                            symbol |-> CsvEdgeSymbol(rel.relation_type),
                            label |-> Slice(rel.label, LabelLimit)]),
          groups |-> GroupsAdd(st.groups, rel),
          edge_map |-> st.edge_map \cup {<<rel.source, rel.target>>},
          filtered_count |-> st.filtered_count]

\* a character the re.sub of the group name keeps:
\* [0-9A-Za-z_\u3040-\u30FF\u4E00-\u9FFF\s]
CsvGroupCharKept(c) ==
    \/ c \in 48..57
    \/ c \in 65..90
    \/ c \in 97..122
    \/ c = 95
    \/ c \in 12352..12543
    \/ c \in 19968..40959
    \/ IsSpace(c)

\* safe_group_name of group_name
CsvSafeGroupName(group_name) == SelectSeq(group_name, CsvGroupCharKept)

\* the lines of one group: '\n    subgraph ..', its members in the order of
\* the set, '    end'
CsvGroupBlock(g, ids, ord) ==
    LET s == SelectSeq(ord, LAMBDA n : n \in g.members /\ n \in DOMAIN ids)
    IN  <<[t |-> "blank"], [t |-> "subgraph", name |-> CsvSafeGroupName(g.name)]>>
        \o [k \in 1..Len(s) |-> [t |-> "member", id |-> ids[s[k]]]]
        \o <<[t |-> "end"]>>

RECURSIVE CsvGroupLines(_, _, _)
CsvGroupLines(gs, ids, ord) ==
    IF gs = <<>> THEN <<>>
    ELSE CsvGroupBlock(Head(gs), ids, ord) \o CsvGroupLines(Tail(gs), ids, ord)

\* the line of one edge
CsvEdgeLine(e, ids) ==
    IF e.src \notin DOMAIN ids \/ e.dst \notin DOMAIN ids THEN <<>>
    ELSE IF e.label # <<>>
    THEN <<[t |-> "edge", src |-> ids[e.src],
            arrow |-> (IF e.symbol = "<-->" THEN "<-->"
                       ELSE IF e.symbol = "-.->" THEN "-.->" ELSE "-->"),
            label |-> e.label, dst |-> ids[e.dst]]>>
    ELSE <<[t |-> "edge", src |-> ids[e.src], arrow |-> e.symbol,
            label |-> <<>>, dst |-> ids[e.dst]]>>

RECURSIVE CsvEdgeBlock(_, _)
CsvEdgeBlock(es, ids) ==
    IF es = <<>> THEN <<>>
    ELSE CsvEdgeLine(Head(es), ids) \o CsvEdgeBlock(Tail(es), ids)

\* if main_focus: '\n    style ..' of the node it names or first matches
CsvFocusLines(mf, ids, ord) ==
    IF mf = <<>> \/ mf = <<StrEmpty>> THEN <<>>
    ELSE LET hit == Resolve(mf[1], ids, ord)
         IN  IF hit = {} THEN <<>>
             ELSE <<[t |-> "blank"],
                    [t |-> "style", id |-> ids[CHOOSE n \in hit : TRUE]]>>

\* a call of build_mermaid_from_csv on a text of TextU, focus of FocusU, in
\* a process of ProcU
InitCsvOn(TextU, FocusU, ProcU) ==
    /\ csv_text \in TextU
    /\ main_focus \in FocusU
    /\ graph = [relationships |-> <<>>, center_persons |-> <<>>]
    /\ other = NoFrame
    /\ gen = NoFrame
    /\ chat = NoFrame
    /\ \E p \in ProcU : hashOf = p.hash /\ setOrder = p.order
    /\ run = 1
    /\ prev = <<>>
    /\ pc = "csv_rows"
    /\ exc = "none"
    /\ i = 1
    /\ nodes = {}
    /\ edges = <<>>
    /\ groups = <<>>
    /\ edge_map = {}
    /\ filtered_count = [invalid |-> 0, empty |-> 0, duplicate |-> 0]
    /\ node_ids = <<>>
    /\ lines = <<>>
    /\ out = <<>>

csvFixed == <<graph, hashOf, setOrder, run, prev, csv_text, main_focus,
              filtered_count, other, gen, chat>>

\* one iteration of "for i, row in enumerate(reader)"
CsvRow ==
    /\ pc = "csv_rows"
    /\ i <= Len(Reader(csv_text))
    /\ LET row == Reader(csv_text)[i]
           st  == IF CsvRowRaises(i, row) \/ CsvRowSkipped(i, row)
                  THEN [nodes |-> nodes, edges |-> edges, groups |-> groups,
                        edge_map |-> edge_map, filtered_count |-> filtered_count]
                  ELSE CsvCollect([nodes |-> nodes, edges |-> edges,
                                   groups |-> groups, edge_map |-> edge_map,
                                   filtered_count |-> filtered_count],
                                  CsvRel(row))
       IN  /\ nodes' = st.nodes
           /\ edges' = st.edges
           /\ groups' = st.groups
           /\ edge_map' = st.edge_map
           /\ IF CsvRowRaises(i, row)
              THEN pc' = "raised" /\ exc' = "IndexError" /\ i' = i
              ELSE pc' = pc /\ exc' = exc /\ i' = i + 1
    /\ UNCHANGED <<csvFixed, node_ids, lines, out>>

\* lines = ["graph LR"], node_ids and the node declarations
CsvNodes ==
    /\ pc = "csv_rows"
    /\ i > Len(Reader(csv_text))
    /\ node_ids' = NodeIds(hashOf, nodes)
    /\ lines' = Header \o NodeLines(nodes, node_ids')
    /\ pc' = "csv_groups"
    /\ UNCHANGED <<csvFixed, collVars, i, out, exc>>

\* the subgraph blocks
CsvGroups ==
    /\ pc = "csv_groups"
    /\ lines' = lines \o CsvGroupLines(groups, node_ids, setOrder)
    /\ pc' = "csv_edges"
    /\ UNCHANGED <<csvFixed, collVars, i, node_ids, out, exc>>

\* lines.append('') and the edge lines
CsvEdges ==
    /\ pc = "csv_edges"
    /\ lines' = lines \o <<[t |-> "blank"]>> \o CsvEdgeBlock(edges, node_ids)
    /\ pc' = "csv_focus"
    /\ UNCHANGED <<csvFixed, collVars, i, node_ids, out, exc>>

\* the style line of main_focus
CsvFocus ==
    /\ pc = "csv_focus"
    /\ lines' = lines \o CsvFocusLines(main_focus, node_ids, setOrder)
    /\ pc' = "csv_return"
    /\ UNCHANGED <<csvFixed, collVars, i, node_ids, out, exc>>

\* return '\n'.join(lines)
CsvReturn ==
    /\ pc = "csv_return"
    /\ out' = lines
    /\ pc' = "done"
    /\ UNCHANGED <<csvFixed, collVars, i, node_ids, lines, exc>>

NextCsv ==
    \/ CsvRow
    \/ CsvNodes
    \/ CsvGroups
    \/ CsvEdges
    \/ CsvFocus
    \/ CsvReturn

\* the strs of a sequence joined by the character sep
RECURSIVE JoinWith(_, _)
JoinWith(ss, sep) ==
    IF ss = <<>> THEN <<>>
    ELSE IF Len(ss) = 1 THEN ss[1]
    ELSE ss[1] \o <<sep>> \o JoinWith(Tail(ss), sep)

\* the lines a text is drawn from: an empty line, a full row, a row of two
\* fields, a header row, a row with a padded name, a synonym of the kind
\* and a group
CsvLines ==
    { <<>>,
      JoinWith(<<StrA, StrDirected, StrAbc, StrB>>, 44),
      JoinWith(<<StrA, StrB>>, 44),
      JoinWith(<<StrSource, StrA, StrAbc, StrB>>, 44),
      JoinWith(<<StrB, StrSouhoukou, StrFriend, StrPaddedA, StrG>>, 44) }

\* the texts of at most MaxRecs lines
CsvTexts == {JoinWith(ls, 10) : ls \in SeqsUpTo(CsvLines, MaxRecs)}

CsvProcs ==
    { [hash |-> (StrA :> 7 @@ StrB :> -8 @@ StrSource :> 9),
       order |-> <<StrA, StrB, StrSource>>],
      [hash |-> (StrA :> 40123 @@ StrB :> 7 @@ StrSource :> -30123),
       order |-> <<StrSource, StrB, StrA>>] }

InitCsv == InitCsvOn(CsvTexts, {<<>>, <<StrA>>}, CsvProcs)

SpecCsv == InitCsv /\ [][NextCsv]_vars

\* C4: the compilers raise on no input: build_mermaid_from_csv returns a
\* text for every CSV text, the rows it cannot use being skipped.
C4_CsvNeverRaises == exc = "none" /\ pc # "raised"

\* '!!'
StrBangs == <<33, 33>>

\* rows with a group: of middle dots, of punctuation the pattern removes,
\* and G
CsvGroupRows ==
    { JoinWith(<<StrA, StrDirected, StrAbc, StrB, StrDots>>, 44),
      JoinWith(<<StrB, StrDirected, StrAbc, StrA, StrBangs>>, 44),
      JoinWith(<<StrA, StrDirected, StrAbc, StrA, StrG>>, 44),
      JoinWith(<<StrB, StrDirected, StrAbc, StrB>>, 44) }

InitCsvGroup ==
    InitCsvOn({JoinWith(ls, 10) : ls \in SeqsUpTo(CsvGroupRows, MaxRecs)},
              {<<>>}, CsvProcs)

SpecCsvGroup == InitCsvGroup /\ [][NextCsv]_vars

\* C25: a subgraph line of build_mermaid_from_csv never has a name that is
\* empty, blank or made of punctuation alone: the group of such a name, or
\* of a name of which the pattern leaves nothing, is emitted as 'group'.
C25_CsvGroupFallback ==
    pc = "done" =>
        /\ Len(SubgraphNames) = Len(groups)
        /\ \A k \in DOMAIN SubgraphNames :
               /\ \E n \in DOMAIN SubgraphNames[k] :
                      AllowListed(SubgraphNames[k][n]) /\ ~IsSpace(SubgraphNames[k][n])
               /\ BlankStr(SelectSeq(groups[k].name, AllowListed)) =>
                      SubgraphNames[k] = DefaultGroupName

-----------------------------------------------------------------------------
(* build_mermaid_from_structured of src/test_structured_output.py, which is  *)
(* also the function of that name in src/test_structured_integration.py and *)
(* src/model_comparison_test_structured.py (the three bodies are the same). *)
(* Its CharacterGraph has one center_person, a str: graph.center_persons    *)
(* holds it as its only element.                                            *)

\* edge_symbol of a relation_type
SibEdgeSymbol(relation_type) ==
    IF relation_type = "bidirectional" THEN "<-->"
    ELSE IF relation_type = "dotted" THEN "-.->."
    ELSE "-->"

\* one iteration of the loop over graph.relationships
SibCollect(st, rel) ==
    IF rel.source \in INVALID_NODES \/ rel.target \in INVALID_NODES THEN st
    ELSE IF rel.source = <<>> \/ rel.target = <<>> THEN st
    ELSE IF <<rel.source, rel.target>> \in st.edge_map THEN st
    ELSE [st EXCEPT !.nodes = @ \cup {rel.source, rel.target},
                    !.groups = GroupsAdd(@, rel),
                    !.edges = Append(@, [src |-> rel.source, dst |-> rel.target,
                                         symbol |-> SibEdgeSymbol(rel.relation_type),
                                         label |-> Slice(rel.label, LabelLimit)]),
                    !.edge_map = @ \cup {<<rel.source, rel.target>>}]

\* re.sub(r'[^0-9A-Za-z_\u3040-\u30FF\u4E00-\u9FFF\s]', '', group_name)
SibSafeGroupName(group_name) == SelectSeq(group_name, CsvGroupCharKept)

\* the lines of one group
SibGroupBlock(g, ids) ==
    LET s == SelectSeq(Sorted(g.members), LAMBDA n : n \in DOMAIN ids)
    IN  <<[t |-> "subgraph", name |-> SibSafeGroupName(g.name)]>>
        \o [k \in 1..Len(s) |-> [t |-> "member", id |-> ids[s[k]]]]
        \o <<[t |-> "end"]>>

RECURSIVE SibGroupBlocks(_, _)
SibGroupBlocks(gs, ids) ==
    IF gs = <<>> THEN <<>>
    ELSE SibGroupBlock(Head(gs), ids) \o SibGroupBlocks(Tail(gs), ids)

\* the line of one edge
SibEdgeLine(e, ids) ==
    IF e.src \notin DOMAIN ids \/ e.dst \notin DOMAIN ids THEN <<>>
    ELSE IF e.label # <<>>
    THEN <<[t |-> "edge", src |-> ids[e.src],
            arrow |-> (IF e.symbol = "<-->" THEN "<-->"
                       ELSE IF e.symbol = "-.->" THEN "-.->" ELSE "-->"),
            label |-> e.label, dst |-> ids[e.dst]]>>
    ELSE <<[t |-> "edge", src |-> ids[e.src], arrow |-> e.symbol,
            label |-> <<>>, dst |-> ids[e.dst]]>>

RECURSIVE SibEdgeBlock(_, _)
SibEdgeBlock(es, ids) ==
    IF es = <<>> THEN <<>>
    ELSE SibEdgeLine(Head(es), ids) \o SibEdgeBlock(Tail(es), ids)

\* if graph.center_person: '\n    style ..' of the node it names or first
\* matches
SibStyleLines(center_person, ids, ord) ==
    IF center_person = <<>> THEN <<>>
    ELSE LET hit == Resolve(center_person, ids, ord)
         IN  IF hit = {} THEN <<>>
             ELSE <<[t |-> "blank"],
                    [t |-> "style", id |-> ids[CHOOSE n \in hit : TRUE]]>>

\* the locals at the start of a call
EntrySibling ==
    /\ pc = "sib_collect"
    /\ exc = "none"
    /\ i = 1
    /\ nodes = {}
    /\ edges = <<>>
    /\ groups = <<>>
    /\ edge_map = {}
    /\ filtered_count = [invalid |-> 0, empty |-> 0, duplicate |-> 0]
    /\ node_ids = <<>>
    /\ lines = Header
    /\ out = <<>>

\* one iteration of "for rel in graph.relationships"
SibRecord ==
    /\ pc = "sib_collect"
    /\ i <= Len(graph.relationships)
    /\ LET st == SibCollect([nodes |-> nodes, edges |-> edges, groups |-> groups,
                             edge_map |-> edge_map],
                            graph.relationships[i])
       IN  /\ nodes' = st.nodes
           /\ edges' = st.edges
           /\ groups' = st.groups
           /\ edge_map' = st.edge_map
    /\ i' = i + 1
    /\ UNCHANGED <<procVars, pc, filtered_count, node_ids, lines, out>>

\* node_ids and the node declarations
SibNodes ==
    /\ pc = "sib_collect"
    /\ i > Len(graph.relationships)
    /\ node_ids' = NodeIds(hashOf, nodes)
    /\ lines' = lines \o NodeLines(nodes, node_ids')
    /\ pc' = "sib_groups"
    /\ UNCHANGED <<procVars, collVars, i, out>>

\* if groups: an empty line and the block of every group
SibGroups ==
    /\ pc = "sib_groups"
    /\ lines' = IF groups = <<>> THEN lines
                ELSE lines \o <<[t |-> "blank"]>> \o SibGroupBlocks(groups, node_ids)
    /\ pc' = "sib_edges"
    /\ UNCHANGED <<procVars, collVars, i, node_ids, out>>

\* an empty line and the line of every edge
SibEdges ==
    /\ pc = "sib_edges"
    /\ lines' = lines \o <<[t |-> "blank"]>> \o SibEdgeBlock(edges, node_ids)
    /\ pc' = "sib_style"
    /\ UNCHANGED <<procVars, collVars, i, node_ids, out>>

\* the style line of the center person
SibStyle ==
    /\ pc = "sib_style"
    /\ lines' = lines \o SibStyleLines(graph.center_persons[1], node_ids, setOrder)
    /\ pc' = "sib_return"
    /\ UNCHANGED <<procVars, collVars, i, node_ids, out>>

\* return '\n'.join(lines)
SibReturn ==
    /\ pc = "sib_return"
    /\ out' = lines
    /\ pc' = "done"
    /\ UNCHANGED <<procVars, collVars, i, node_ids, lines>>

NextSibling ==
    \/ SibRecord
    \/ SibNodes
    \/ SibGroups
    \/ SibEdges
    \/ SibStyle
    \/ SibReturn

\* two names, the three kinds, no label or one of 6 characters, no group or G
SiblingRels ==
    Rels({StrA, StrB}, {StrB}, {"directed", "bidirectional", "dotted"},
         {StrEmpty, StrFriend}, {StrEmpty, StrG})

\* a call of the function on a graph with one center_person
InitSibling ==
    /\ graph \in {g \in Graphs(SiblingRels, {StrA, StrEmpty}) :
                      Len(g.center_persons) = 1}
    /\ other = NoFrame
    /\ gen = NoFrame
    /\ chat = NoFrame
    /\ \E p \in CoreProcs : hashOf = p.hash /\ setOrder = p.order
    /\ run = 1
    /\ prev = <<>>
    /\ csv_text = <<>>
    /\ main_focus = <<>>
    /\ EntrySibling

SpecSibling == InitSibling /\ [][NextSibling]_vars

\* C24: every edge line has one of the arrows '-->', '<-->', '-.->', and the
\* line of a dotted record has '-.->', with a label and without one.
C24_ArrowTokens ==
    Done =>
        /\ \A n \in DOMAIN EdgeLinesOf(out) :
               EdgeLinesOf(out)[n].arrow \in {"-->", "<-->", "-.->"}
        /\ Len(EdgeLinesOf(out)) = Len(Survivors)
        /\ \A n \in DOMAIN Survivors :
               graph.relationships[Survivors[n]].relation_type = "dotted" =>
                   EdgeLinesOf(out)[n].arrow = "-.->"

=============================================================================
